---- MODULE Spec2Model ----
(***************************************************************************)
(* Model of iec-61131-3: the IEC data type handlers (iec-type-handler.ts)  *)
(* with their byte-exact codecs.  A data type (schema node) is a record;   *)
(* a JavaScript value is a tagged record; a Buffer is a sequence of bytes; *)
(* a call either returns (Ok) or throws (Throw).                           *)
(***************************************************************************)
EXTENDS Integers, Sequences, FiniteSets, TLC

VARIABLES
    schema,   \* the data type under use (an IecType object)
    input,    \* the argument of the last convertToBuffer / convertFromBuffer
    encoded,  \* outcome of the last convertToBuffer call: Ok(bytes) or Throw
    decoded,  \* outcome of the last convertFromBuffer call: Ok(value) or Throw
    yielded,  \* what the last iteration over the data type yielded, in order
    pc,       \* what the caller did last
    iterators, \* the traversals started and not yet discarded, each with the
               \* locals of its generator and the entries it has yielded
    resolver   \* the resolveIecTypes call under way: its arguments, its locals,
               \* the calls it is in, and what it returned or threw

vars == <<schema, input, encoded, decoded, yielded, pc, iterators, resolver>>

(***************************************************************************)
(* Bounds of the model.                                                    *)
(***************************************************************************)
MaxDepth == 2      \* nesting depth of composite types built around a leaf
MaxDim == 2        \* largest size of one array dimension
MaxStrLen == 2     \* largest declared STRING / WSTRING length
MaxBytes == 32     \* largest byteLength of a composite type the caller builds
\* how many traversals of one data type are alive at once
MaxIterators == 2
\* how many units one declaration text holds
MaxUnits == 3
\* how many members one enumeration text holds
MaxMembers == 3

(***************************************************************************)
(* JavaScript values.                                                      *)
(***************************************************************************)
Undefined == [t |-> "undefined"]
Null == [t |-> "null"]
NaN == [t |-> "NaN"]
\* a number that is no integer of the model (infinite or fractional), kept as
\* the bytes it was read from
Float(bits) == [t |-> "float", bits |-> bits]
Num(n) == [t |-> "number", n |-> n]
Big(n) == [t |-> "bigint", big |-> n]
Str(s) == [t |-> "string", s |-> s]
Bool(b) == [t |-> "boolean", b |-> b]
Arr(xs) == [t |-> "array", items |-> xs]
Obj(ps) == [t |-> "object", props |-> ps]
Prop(k, v) == [k |-> k, v |-> v]

\* a call that returned x / a call that threw e
Ok(x) == [ok |-> TRUE, val |-> x]
Throw(e) == [ok |-> FALSE, err |-> e]

\* data[key] on a value: undefined for a missing key (property reads of
\* undefined / null throw and are guarded at the call sites)
Get(v, key) ==
    IF v.t = "object" /\ \E i \in 1..Len(v.props) : v.props[i].k = key
    THEN v.props[CHOOSE i \in 1..Len(v.props) :
                    /\ v.props[i].k = key
                    /\ \A j \in 1..(i - 1) : v.props[j].k # key].v
    ELSE Undefined

\* data[index] on an array value (0-based index)
At(v, index) ==
    IF v.t = "array" /\ index + 1 \in 1..Len(v.items)
    THEN v.items[index + 1]
    ELSE IF v.t = "string" /\ index + 1 \in 1..Len(v.s)
    THEN Str(<<v.s[index + 1]>>)
    ELSE Undefined

\* data[index] as the array handler evaluates it: reading a property of
\* undefined or null throws
Index(v, index) ==
    IF v.t \in {"undefined", "null"} THEN Throw("TypeError") ELSE Ok(At(v, index))

\* typeof data
TypeOf(v) ==
    CASE v.t \in {"number", "NaN", "float"} -> "number"
      [] v.t \in {"object", "array", "null"} -> "object"
      [] OTHER -> v.t

\* if (data) ...
Truthy(v) ==
    CASE v.t = "undefined" -> FALSE
      [] v.t = "null" -> FALSE
      [] v.t = "NaN" -> FALSE
      [] v.t = "number" -> v.n # 0
      [] v.t = "bigint" -> v.big # 0
      [] v.t = "string" -> Len(v.s) > 0
      [] v.t = "boolean" -> v.b
      [] OTHER -> TRUE

(***************************************************************************)
(* Buffer primitives of the platform, as the handlers use them.            *)
(***************************************************************************)
RECURSIVE Zeros(_)
Zeros(n) == IF n <= 0 THEN <<>> ELSE <<0>> \o Zeros(n - 1)

\* Buffer.alloc(size): zero-filled
BufferAlloc(size) == Zeros(size)

\* source.copy(target, targetStart): overwrites target from targetStart, never
\* grows the target (what does not fit is dropped)
BufferCopy(source, target, targetStart) ==
    [i \in 1..Len(target) |->
        IF i > targetStart /\ i - targetStart <= Len(source)
        THEN source[i - targetStart]
        ELSE target[i]]

Min(a, b) == IF a < b THEN a ELSE b

\* data.slice(start, end): clamped to the buffer
BufferSlice(buf, start, end) ==
    SubSeq(buf, Min(start, Len(buf)) + 1, Min(end, Len(buf)))

RECURSIVE Pow2(_)
Pow2(n) == IF n = 0 THEN 1 ELSE 2 * Pow2(n - 1)

\* byte i (0-based) of the two's complement representation of n
RECURSIVE ByteOf(_, _)
ByteOf(n, i) == IF i = 0 THEN n % 256 ELSE ByteOf(n \div 256, i - 1)

LEBytes(n, width) == [i \in 1..width |-> ByteOf(n, i - 1)]

\* +value: the number a write coerces its argument to; "NaN" when it is none
IsNaN(v) == v.t \in {"undefined", "NaN", "object", "array"} \/ (v.t = "string" /\ Len(v.s) > 0)
ToNumber(v) ==
    CASE v.t = "number" -> v.n
      [] v.t = "boolean" -> IF v.b THEN 1 ELSE 0
      [] OTHER -> 0

\* buf.writeUInt8 / writeInt8 / write(U)Int16LE / write(U)Int32LE on a fresh
\* buffer of `width` bytes: a BigInt cannot be coerced (TypeError), a number
\* outside [lo, hi] is refused (RangeError), NaN is stored as 0
WriteIntLE(v, width, lo, hi) ==
    IF v.t = "bigint" THEN Throw("TypeError")
    ELSE IF IsNaN(v) THEN Ok(Zeros(width))
    ELSE IF ToNumber(v) < lo \/ ToNumber(v) > hi THEN Throw("RangeError")
    ELSE Ok(LEBytes(ToNumber(v), width))

\* buf.readUInt8 / readUInt16LE / readUInt32LE: reading past the end throws
ReadUIntLE(buf, width) ==
    IF Len(buf) < width THEN Throw("RangeError")
    ELSE Ok(Num(IF width = 1 THEN buf[1]
                ELSE IF width = 2 THEN buf[1] + 256 * buf[2]
                ELSE buf[1] + 256 * buf[2] + 65536 * buf[3] + 16777216 * buf[4]))

Signed(b) == IF b >= 128 THEN b - 256 ELSE b

\* buf.readInt8 / readInt16LE / readInt32LE
ReadIntLE(buf, width) ==
    IF Len(buf) < width THEN Throw("RangeError")
    ELSE Ok(Num(IF width = 1 THEN Signed(buf[1])
                ELSE IF width = 2 THEN buf[1] + 256 * Signed(buf[2])
                ELSE buf[1] + 256 * buf[2] + 65536 * buf[3]
                     + 16777216 * Signed(buf[4])))

\* buf.writeBigUInt64LE / writeBigInt64LE: only a BigInt is accepted
WriteBigLE(v, signed) ==
    IF v.t # "bigint" THEN Throw("TypeError")
    ELSE IF ~signed /\ v.big < 0 THEN Throw("RangeError")
    ELSE Ok(LEBytes(v.big, 8))

\* buf.readBigUInt64LE / readBigInt64LE: the result is a BigInt
ReadBigLE(buf, signed) ==
    IF Len(buf) < 8 THEN Throw("RangeError")
    ELSE Ok(Big(buf[1] + 256 * buf[2] + 65536 * buf[3]
                + 16777216 * (IF signed THEN Signed(buf[4]) ELSE buf[4])))

RECURSIVE FloorLog2(_)
FloorLog2(m) == IF m < 2 THEN 0 ELSE 1 + FloorLog2(m \div 2)

Abs(n) == IF n < 0 THEN -n ELSE n

\* significand (24 bits, hidden bit included) and biased exponent of the IEEE
\* 754 single nearest to the integer n # 0, rounding half to even
SingleParts(n) ==
    LET m == Abs(n)
        e == FloorLog2(m)
    IN IF e <= 23
       THEN [q |-> m * Pow2(23 - e), E |-> e + 127]
       ELSE LET sh == e - 23
                q0 == m \div Pow2(sh)
                r == m % Pow2(sh)
                half == Pow2(sh - 1)
                q1 == IF r > half \/ (r = half /\ q0 % 2 = 1) THEN q0 + 1 ELSE q0
            IN IF q1 = Pow2(24)
               THEN [q |-> Pow2(23), E |-> e + 128]
               ELSE [q |-> q1, E |-> e + 127]

\* buf.writeFloatLE(value) on a fresh 4 byte buffer
WriteFloatLE(v) ==
    IF v.t = "bigint" THEN Throw("TypeError")
    ELSE IF IsNaN(v) THEN Ok(<<0, 0, 192, 127>>)
    ELSE IF ToNumber(v) = 0 THEN Ok(Zeros(4))
    ELSE LET n == ToNumber(v)
             p == SingleParts(n)
             frac == p.q - Pow2(23)
             s == IF n < 0 THEN 1 ELSE 0
         IN Ok(<<frac % 256, (frac \div 256) % 256,
                 (p.E % 2) * 128 + frac \div 65536, s * 128 + p.E \div 2>>)

\* buf.readFloatLE()
ReadFloatLE(buf) ==
    IF Len(buf) < 4 THEN Throw("RangeError")
    ELSE LET s == buf[4] \div 128
             E == (buf[4] % 128) * 2 + buf[3] \div 128
             frac == (buf[3] % 128) * 65536 + buf[2] * 256 + buf[1]
             sig == Pow2(23) + frac
             x == E - 150
             sign == IF s = 1 THEN -1 ELSE 1
         IN IF E = 0 /\ frac = 0 THEN Ok(Num(0))
            ELSE IF E = 255 /\ frac # 0 THEN Ok(NaN)
            ELSE IF x >= 0 /\ x <= 7 THEN Ok(Num(sign * sig * Pow2(x)))
            ELSE IF x < 0 /\ x >= -23 /\ sig % Pow2(-x) = 0
                 THEN Ok(Num(sign * (sig \div Pow2(-x))))
            ELSE Ok(Float(SubSeq(buf, 1, 4)))

\* buf.writeDoubleLE(value) on a fresh 8 byte buffer; every integer of the
\* model is exact in double precision
WriteDoubleLE(v) ==
    IF v.t = "bigint" THEN Throw("TypeError")
    ELSE IF IsNaN(v) THEN Ok(<<0, 0, 0, 0, 0, 0, 248, 127>>)
    ELSE IF ToNumber(v) = 0 THEN Ok(Zeros(8))
    ELSE LET n == ToNumber(v)
             m == Abs(n)
             e == FloorLog2(m)
             E == e + 1023
             g == (m - Pow2(e)) * Pow2(30 - e)
             s == IF n < 0 THEN 1 ELSE 0
         IN Ok(<<0, 0, (g % 4) * 64, (g \div 4) % 256, (g \div 1024) % 256,
                 (g \div 262144) % 256, (E % 16) * 16 + g \div 67108864,
                 s * 128 + E \div 16>>)

\* buf.readDoubleLE()
ReadDoubleLE(buf) ==
    IF Len(buf) < 8 THEN Throw("RangeError")
    ELSE LET s == buf[8] \div 128
             E == (buf[8] % 128) * 16 + buf[7] \div 16
             g == (buf[7] % 16) * 67108864 + buf[6] * 262144 + buf[5] * 1024
                  + buf[4] * 4 + buf[3] \div 64
             e == E - 1023
             low == buf[1] = 0 /\ buf[2] = 0 /\ buf[3] % 64 = 0
             sign == IF s = 1 THEN -1 ELSE 1
         IN IF E = 0 /\ g = 0 /\ low THEN Ok(Num(0))
            ELSE IF E = 2047 /\ (g # 0 \/ ~low) THEN Ok(NaN)
            ELSE IF low /\ e >= 0 /\ e <= 30 /\ g % Pow2(30 - e) = 0
                 THEN Ok(Num(sign * (Pow2(e) + g \div Pow2(30 - e))))
            ELSE Ok(Float(SubSeq(buf, 1, 8)))

(***************************************************************************)
(* Text codecs (iconv-lite), as STRING and WSTRING use them.               *)
(***************************************************************************)
\* characters of the cp1252 bytes 0x80..0x9F (65533: byte not assigned)
Cp1252High ==
    <<8364, 65533, 8218, 402, 8222, 8230, 8224, 8225, 710, 8240, 352, 8249,
      338, 65533, 381, 65533, 65533, 8216, 8217, 8220, 8221, 8226, 8211, 8212,
      732, 8482, 353, 8250, 339, 65533, 382, 376>>

\* one character (UTF-16 code unit) to its cp1252 byte; '?' when it has none
Cp1252Byte(c) ==
    IF c < 128 \/ (c >= 160 /\ c <= 255) THEN c
    ELSE IF c # 65533 /\ \E i \in 1..32 : Cp1252High[i] = c
         THEN 127 + (CHOOSE i \in 1..32 : Cp1252High[i] = c)
    ELSE 63

Cp1252Char(b) == IF b >= 128 /\ b < 160 THEN Cp1252High[b - 127] ELSE b

\* "" + (str || ""): what iconv.encode makes of its first argument
TextOf(v) == IF v.t = "string" THEN v.s ELSE <<>>

\* iconv.encode(data, 'cp1252')
EncodeCp1252(v) == [i \in 1..Len(TextOf(v)) |-> Cp1252Byte(TextOf(v)[i])]

\* iconv.decode(data, 'cp1252')
DecodeCp1252(buf) == [i \in 1..Len(buf) |-> Cp1252Char(buf[i])]

\* iconv.encode(data, 'ucs2'): two bytes per code unit, low byte first
EncodeUcs2(v) ==
    [i \in 1..(2 * Len(TextOf(v))) |->
        IF i % 2 = 1 THEN TextOf(v)[(i + 1) \div 2] % 256
        ELSE TextOf(v)[i \div 2] \div 256]

\* iconv.decode(data, 'ucs2'): one code unit per complete byte pair; a leading
\* byte order mark (U+FEFF) is stripped
DecodeUcs2(buf) ==
    LET units == [i \in 1..(Len(buf) \div 2) |-> buf[2 * i - 1] + 256 * buf[2 * i]]
    IN IF Len(units) > 0 /\ units[1] = 65279 THEN Tail(units) ELSE units

\* (mutation) only the zero characters at the end are removed
RECURSIVE trimPlcStringAtEnd(_)
trimPlcStringAtEnd(plcString) ==
    IF Len(plcString) > 0 /\ plcString[Len(plcString)] = 0
    THEN trimPlcStringAtEnd(SubSeq(plcString, 1, Len(plcString) - 1))
    ELSE plcString

\* trimPlcString: the characters before the first character of code 0
trimPlcString(plcString) ==
    IF \E i \in 1..Len(plcString) : plcString[i] = 0
    THEN SubSeq(plcString, 1,
                (CHOOSE i \in 1..Len(plcString) :
                    /\ plcString[i] = 0
                    /\ \A j \in 1..(i - 1) : plcString[j] # 0) - 1)
    ELSE plcString

(***************************************************************************)
(* The data types (iec-type-handler.ts).  Non-complex types are objects    *)
(* with a type name and a byteLength; subclasses inherit both the          *)
(* byteLength and the codec of their base class.                           *)
(***************************************************************************)
BOOL == [type |-> "BOOL", byteLength |-> 1]
USINT == [type |-> "USINT", byteLength |-> 1]
BYTE == [type |-> "BYTE", byteLength |-> USINT.byteLength]
SINT == [type |-> "SINT", byteLength |-> 1]
UINT == [type |-> "UINT", byteLength |-> 2]
WORD == [type |-> "WORD", byteLength |-> UINT.byteLength]
INT == [type |-> "INT", byteLength |-> 2]
DINT == [type |-> "DINT", byteLength |-> 4]
UDINT == [type |-> "UDINT", byteLength |-> 4]
DWORD == [type |-> "DWORD", byteLength |-> UDINT.byteLength]
TIME == [type |-> "TIME", byteLength |-> UDINT.byteLength]
TOD == [type |-> "TOD", byteLength |-> UDINT.byteLength]
TIME_OF_DAY == [type |-> "TIME_OF_DAY", byteLength |-> TOD.byteLength]
DT == [type |-> "DT", byteLength |-> UDINT.byteLength]
DATE_AND_TIME == [type |-> "DATE_AND_TIME", byteLength |-> DT.byteLength]
DATE == [type |-> "DATE", byteLength |-> UDINT.byteLength]
REAL == [type |-> "REAL", byteLength |-> 4]
LREAL == [type |-> "LREAL", byteLength |-> 8]
ULINT == [type |-> "ULINT", byteLength |-> 8]
LWORD == [type |-> "LWORD", byteLength |-> ULINT.byteLength]
LINT == [type |-> "LINT", byteLength |-> 8]

\* the class whose convertToBuffer / convertFromBuffer / getDefault a type runs
BaseClass(type) ==
    CASE type = "BYTE" -> "USINT"
      [] type = "WORD" -> "UINT"
      [] type \in {"DWORD", "TIME", "TOD", "TIME_OF_DAY", "DT", "DATE_AND_TIME",
                   "DATE"} -> "UDINT"
      [] type = "LWORD" -> "ULINT"
      [] OTHER -> type

\* new STRING(length) (STRING and UNION are words of TLA+): one byte for the end delimiter
STRING_new(length) == [type |-> "STRING", byteLength |-> length + 1]

\* new WSTRING(length)
WSTRING(length) == [type |-> "WSTRING", byteLength |-> length * 2 + 2]

\* a child of a STRUCT / UNION: one key of the children object with its type
Child(name, dt) == [name |-> name, dt |-> dt]

\* (mutation) this.byteLength = child.byteLength instead of +=
STRUCT_sizeAssign(children, k, byteLength) ==
    IF Len(children) = 0 THEN 0 ELSE children[Len(children)].dt.byteLength

\* STRUCT constructor, the loop that adds up the size
RECURSIVE STRUCT_size(_, _, _)
STRUCT_size(children, k, byteLength) ==
    IF k > Len(children) THEN byteLength
    ELSE STRUCT_size(children, k + 1, byteLength + children[k].dt.byteLength)

STRUCT(children) ==
    [type |-> "STRUCT", byteLength |-> STRUCT_size(children, 1, 0),
     children |-> children]

\* UNION constructor, the loop that finds the biggest child
RECURSIVE UNION_size(_, _, _)
UNION_size(children, k, byteLength) ==
    IF k > Len(children) THEN byteLength
    ELSE UNION_size(children, k + 1,
                    IF children[k].dt.byteLength > byteLength
                    THEN children[k].dt.byteLength
                    ELSE byteLength)

UNION_new(children) ==
    [type |-> "UNION", byteLength |-> UNION_size(children, 1, 0),
     children |-> children]

\* this.dimensions.reduce((total, size) => total * size, 1)
RECURSIVE ARRAY_totalSize(_, _, _)
ARRAY_totalSize(dimensions, k, total) ==
    IF k > Len(dimensions) THEN total
    ELSE ARRAY_totalSize(dimensions, k + 1, total * dimensions[k])

\* new ARRAY(dataType, dimensions), dimensions given as an array
ARRAY(dataType, dimensions) ==
    [type |-> "ARRAY",
     byteLength |-> ARRAY_totalSize(dimensions, 1, 1) * dataType.byteLength,
     dataType |-> dataType, dimensions |-> dimensions,
     totalSize |-> ARRAY_totalSize(dimensions, 1, 1)]

\* one key of an ENUM definition with its number
Member(name, value) == [name |-> name, value |-> value]

\* new ENUM(definition, dataType): INT when no data type is given
ENUM(definition, dataType) ==
    LET dt == IF dataType = Undefined THEN INT ELSE dataType
    IN [type |-> "ENUM", byteLength |-> dt.byteLength,
        definition |-> definition, dataType |-> dt]

\* children !== undefined
HasChildren(dt) == dt.type \in {"STRUCT", "UNION"}

(***************************************************************************)
(* Iteration over the variables of a data type.                            *)
(***************************************************************************)
\* what an iterator yields
IteratedIecType(name, startIndex, type) ==
    [name |-> name, startIndex |-> startIndex, type |-> type]

\* the helper generator of [Symbol.iterator]: what it yields for dt, and the
\* startIndex (shared by all levels of the recursion) it leaves behind
RECURSIVE iterate(_, _)
RECURSIVE iterateChildren(_, _, _, _)
iterateChildren(children, k, items, startIndex) ==
    IF k > Len(children) THEN [items |-> items, startIndex |-> startIndex]
    ELSE LET type == children[k].dt
         IN IF HasChildren(type)
            THEN LET deeper == iterate(type, startIndex)
                 IN iterateChildren(children, k + 1, items \o deeper.items,
                                    deeper.startIndex)
            ELSE iterateChildren(children, k + 1,
                    Append(items, IteratedIecType(Str(children[k].name), startIndex, type)),
                    startIndex + type.byteLength)

iterate(dt, startIndex) ==
    IF ~HasChildren(dt)
    THEN [items |-> <<IteratedIecType(Undefined, startIndex, dt)>>,
          startIndex |-> startIndex + dt.byteLength]
    ELSE iterateChildren(dt.children, 1, <<>>, startIndex)

\* variableIterator() / [Symbol.iterator]()
variableIterator(dt) == iterate(dt, 0).items

\* `${name}[${i}]`: the text of the name (the word undefined when there is no
\* name) followed by the index in brackets; kept as the text with the list of
\* the indexes that follow it
TemplateName(name, i) ==
    [t |-> "string",
     s |-> IF name = Undefined THEN "undefined" ELSE name.s,
     suffixes |-> (IF "suffixes" \in DOMAIN name THEN name.suffixes ELSE <<>>) \o <<i>>]

\* iterateArrayLevel of elementIterator, from loop index i on
RECURSIVE iterateArrayLevel(_, _, _, _)
iterateArrayLevel(dt, startIndex, name, i) ==
    IF i >= dt.totalSize THEN <<>>
    ELSE (IF dt.dataType.type = "ARRAY"
          THEN iterateArrayLevel(dt.dataType, startIndex + dt.dataType.byteLength * i,
                                 TemplateName(name, i), 0)
          ELSE <<IteratedIecType(TemplateName(name, i),
                                 startIndex + dt.dataType.byteLength * i,
                                 dt.dataType)>>)
         \o iterateArrayLevel(dt, startIndex, name, i + 1)

\* elementIterator(): the loop over the variables, from the k-th on
RECURSIVE elementIteratorLoop(_, _)
elementIteratorLoop(variables, k) ==
    IF k > Len(variables) THEN <<>>
    ELSE (IF variables[k].type.type = "ARRAY"
          THEN iterateArrayLevel(variables[k].type, variables[k].startIndex,
                                 variables[k].name, 0)
          ELSE <<variables[k]>>)
         \o elementIteratorLoop(variables, k + 1)

elementIterator(dt) == elementIteratorLoop(variableIterator(dt), 1)

\* (mutation) the offset counter is kept between the calls: a traversal goes
\* on from the offset the traversals before it run up to
startIndexKept(dt, started) ==
    IF started = <<>> THEN 0 ELSE iterate(dt, 0).startIndex

\* let startIndex = 0: the counter is a local of every call of the generator
startIndexLocal(dt, started) == 0

\* a generator object: which method made it, the value its own startIndex
\* began with, the entries it has yielded and whether it has reported its end
Generator(method, startIndex) ==
    [method |-> method, startIndex |-> startIndex, out |-> <<>>, done |-> FALSE]

\* everything the generator g yields over dt when it is run to its end
GeneratorRun(dt, g) ==
    IF g.method = "elementIterator"
    THEN elementIteratorLoop(iterate(dt, g.startIndex).items, 1)
    ELSE iterate(dt, g.startIndex).items

\* g.next(): the generator runs to its next yield, or to its end
GeneratorNext(dt, g) ==
    LET run == GeneratorRun(dt, g)
    IN IF Len(g.out) < Len(run)
       THEN [g EXCEPT !.out = Append(g.out, run[Len(g.out) + 1])]
       ELSE [g EXCEPT !.done = TRUE]

(***************************************************************************)
(* convertToBuffer                                                         *)
(***************************************************************************)
RECURSIVE convertToBuffer(_, _)

BOOL_convertToBuffer(dt, data) == Ok(<<IF Truthy(data) THEN 1 ELSE 0>>)
USINT_convertToBuffer(dt, data) == WriteIntLE(data, 1, 0, 255)
SINT_convertToBuffer(dt, data) == WriteIntLE(data, 1, -128, 127)
UINT_convertToBuffer(dt, data) == WriteIntLE(data, 2, 0, 65535)
INT_convertToBuffer(dt, data) == WriteIntLE(data, 2, -32768, 32767)
DINT_convertToBuffer(dt, data) == WriteIntLE(data, 4, -2147483647 - 1, 2147483647)
\* no integer of the model exceeds the unsigned 32 bit range
UDINT_convertToBuffer(dt, data) == WriteIntLE(data, 4, 0, 2147483647)
REAL_convertToBuffer(dt, data) == WriteFloatLE(data)
LREAL_convertToBuffer(dt, data) == WriteDoubleLE(data)
ULINT_convertToBuffer(dt, data) == WriteBigLE(data, FALSE)
LINT_convertToBuffer(dt, data) == WriteBigLE(data, TRUE)

\* (mutation) the encoded text is not cut to the capacity
STRING_convertToBufferNoLimit(dt, data) ==
    Ok(EncodeCp1252(data) \o Zeros(dt.byteLength - Len(EncodeCp1252(data))))

STRING_convertToBuffer(dt, data) ==
    Ok(BufferCopy(EncodeCp1252(data), BufferAlloc(dt.byteLength), 0))

WSTRING_convertToBuffer(dt, data) ==
    Ok(BufferCopy(EncodeUcs2(data), BufferAlloc(dt.byteLength), 0))

\* the loop of STRUCT.convertToBuffer over the children, from child k on
RECURSIVE STRUCT_convertToBufferLoop(_, _, _, _, _)
STRUCT_convertToBufferLoop(children, data, k, buf, pos) ==
    IF k > Len(children) THEN Ok(buf)
    ELSE LET converted == convertToBuffer(children[k].dt, Get(data, children[k].name))
         IN IF ~converted.ok THEN converted
            ELSE STRUCT_convertToBufferLoop(children, data, k + 1,
                     BufferCopy(converted.val, buf, pos), pos + Len(converted.val))

STRUCT_convertToBuffer(dt, data) ==
    IF ~Truthy(data) THEN Ok(BufferAlloc(0))
    ELSE STRUCT_convertToBufferLoop(dt.children, data, 1, BufferAlloc(dt.byteLength), 0)

\* (mutation) the loop quits after the first member that has a value
RECURSIVE UNION_convertToBufferFirst(_, _, _, _)
UNION_convertToBufferFirst(children, data, k, buf) ==
    IF k > Len(children) THEN Ok(buf)
    ELSE IF Get(data, children[k].name) = Undefined
         THEN UNION_convertToBufferFirst(children, data, k + 1, buf)
    ELSE LET converted == convertToBuffer(children[k].dt, Get(data, children[k].name))
         IN IF ~converted.ok THEN converted
            ELSE Ok(BufferCopy(converted.val, buf, 0))

\* the loop of UNION.convertToBuffer: every defined member is written at 0
RECURSIVE UNION_convertToBufferLoop(_, _, _, _)
UNION_convertToBufferLoop(children, data, k, buf) ==
    IF k > Len(children) THEN Ok(buf)
    ELSE IF Get(data, children[k].name) = Undefined
         THEN UNION_convertToBufferLoop(children, data, k + 1, buf)
    ELSE LET converted == convertToBuffer(children[k].dt, Get(data, children[k].name))
         IN IF ~converted.ok THEN converted
            ELSE UNION_convertToBufferLoop(children, data, k + 1,
                     BufferCopy(converted.val, buf, 0))

UNION_convertToBuffer(dt, data) ==
    IF ~Truthy(data) THEN Ok(BufferAlloc(0))
    ELSE UNION_convertToBufferLoop(dt.children, data, 1, BufferAlloc(dt.byteLength))

\* this.dimensions[arrayDimension] as a loop limit (nothing to loop over when
\* there is no such dimension)
DimensionSize(dt, arrayDimension) ==
    IF arrayDimension + 1 <= Len(dt.dimensions)
    THEN dt.dimensions[arrayDimension + 1] ELSE 0

\* if (this.dimensions[arrayDimension + 1])
MoreDimensions(dt, arrayDimension) == DimensionSize(dt, arrayDimension + 1) # 0

\* parseArray(data, arrayDimension) of ARRAY.convertToBuffer, from loop index
\* `dimension` on; st is the shared buffer with the write position pos
RECURSIVE ARRAY_convertToBufferLoop(_, _, _, _, _)
ARRAY_convertToBufferLoop(dt, rows, arrayDimension, dimension, st) ==
    IF dimension >= DimensionSize(dt, arrayDimension) THEN Ok(st)
    ELSE LET item == Index(rows, dimension)
         IN IF ~item.ok THEN item
            ELSE IF MoreDimensions(dt, arrayDimension)
            THEN LET inner == ARRAY_convertToBufferLoop(dt, item.val,
                                  arrayDimension + 1, 0, st)
                 IN IF ~inner.ok THEN inner
                    ELSE ARRAY_convertToBufferLoop(dt, rows, arrayDimension,
                             dimension + 1, inner.val)
            ELSE LET converted == convertToBuffer(dt.dataType, item.val)
                 IN IF ~converted.ok THEN converted
                    ELSE ARRAY_convertToBufferLoop(dt, rows, arrayDimension,
                             dimension + 1,
                             [buf |-> BufferCopy(converted.val, st.buf, st.pos),
                              pos |-> st.pos + Len(converted.val)])

ARRAY_convertToBuffer(dt, data) ==
    IF ~Truthy(data) THEN Ok(BufferAlloc(0))
    ELSE LET done == ARRAY_convertToBufferLoop(dt, data, 0, 0,
                         [buf |-> BufferAlloc(dt.byteLength), pos |-> 0])
         IN IF ~done.ok THEN done ELSE Ok(done.val.buf)

\* key.toLowerCase()
LowerChar(c) == IF c >= 65 /\ c <= 90 THEN c + 32 ELSE c
toLowerCase(name) == [i \in 1..Len(name) |-> LowerChar(name[i])]

\* Object.keys(this.definition).find(key => key.toLowerCase() === name.toLowerCase()):
\* the index of the key found, 0 when there is none
ENUM_findKey(definition, name) ==
    IF \E i \in 1..Len(definition) :
            toLowerCase(definition[i].name) = toLowerCase(name)
    THEN CHOOSE i \in 1..Len(definition) :
            /\ toLowerCase(definition[i].name) = toLowerCase(name)
            /\ \A j \in 1..(i - 1) :
                    toLowerCase(definition[j].name) # toLowerCase(name)
    ELSE 0

ENUM_convertToBuffer(dt, data) ==
    IF ~Truthy(data) THEN Ok(BufferAlloc(0))
    ELSE IF TypeOf(data) = "string"
    THEN LET found == ENUM_findKey(dt.definition, data.s)
         IN IF found # 0
            THEN convertToBuffer(dt.dataType, Num(dt.definition[found].value))
            ELSE Throw("Input parameter is not valid for ENUM")
    ELSE IF TypeOf(data) = "number"
    THEN convertToBuffer(dt.dataType, data)
    ELSE IF TypeOf(data) = "object" /\ Truthy(Get(data, "value"))
    THEN convertToBuffer(dt.dataType, data)
    ELSE IF TypeOf(data) = "object" /\ Truthy(Get(data, "name"))
    THEN IF Len(dt.definition) > 0 /\ Get(data, "name").t # "string"
         THEN Throw("TypeError")
         ELSE LET found == IF Len(dt.definition) = 0 THEN 0
                           ELSE ENUM_findKey(dt.definition, Get(data, "name").s)
              IN IF found # 0
                 THEN convertToBuffer(dt.dataType, Num(dt.definition[found].value))
                 ELSE Throw("Input parameter is not valid for ENUM")
    ELSE Throw("Input parameter is not valid for ENUM (number, string or object with { value })")

convertToBuffer(dt, data) ==
    LET class == BaseClass(dt.type)
    IN CASE class = "STRUCT" -> STRUCT_convertToBuffer(dt, data)
         [] class = "UNION" -> UNION_convertToBuffer(dt, data)
         [] class = "ARRAY" -> ARRAY_convertToBuffer(dt, data)
         [] class = "ENUM" -> ENUM_convertToBuffer(dt, data)
         [] class = "STRING" -> STRING_convertToBuffer(dt, data)
         [] class = "WSTRING" -> WSTRING_convertToBuffer(dt, data)
         [] class = "BOOL" -> BOOL_convertToBuffer(dt, data)
         [] class = "USINT" -> USINT_convertToBuffer(dt, data)
         [] class = "SINT" -> SINT_convertToBuffer(dt, data)
         [] class = "UINT" -> UINT_convertToBuffer(dt, data)
         [] class = "INT" -> INT_convertToBuffer(dt, data)
         [] class = "DINT" -> DINT_convertToBuffer(dt, data)
         [] class = "UDINT" -> UDINT_convertToBuffer(dt, data)
         [] class = "REAL" -> REAL_convertToBuffer(dt, data)
         [] class = "LREAL" -> LREAL_convertToBuffer(dt, data)
         [] class = "ULINT" -> ULINT_convertToBuffer(dt, data)
         [] class = "LINT" -> LINT_convertToBuffer(dt, data)

(***************************************************************************)
(* convertFromBuffer                                                       *)
(***************************************************************************)
RECURSIVE convertFromBuffer(_, _)

BOOL_convertFromBuffer(dt, data) ==
    LET byte == ReadUIntLE(data, 1)
    IN IF ~byte.ok THEN byte ELSE Ok(Bool(Truthy(byte.val)))
USINT_convertFromBuffer(dt, data) == ReadUIntLE(data, 1)
SINT_convertFromBuffer(dt, data) == ReadIntLE(data, 1)
UINT_convertFromBuffer(dt, data) == ReadUIntLE(data, 2)
INT_convertFromBuffer(dt, data) == ReadIntLE(data, 2)
DINT_convertFromBuffer(dt, data) == ReadIntLE(data, 4)
UDINT_convertFromBuffer(dt, data) == ReadUIntLE(data, 4)
REAL_convertFromBuffer(dt, data) == ReadFloatLE(data)
LREAL_convertFromBuffer(dt, data) == ReadDoubleLE(data)
ULINT_convertFromBuffer(dt, data) == ReadBigLE(data, FALSE)
LINT_convertFromBuffer(dt, data) == ReadBigLE(data, TRUE)

STRING_convertFromBuffer(dt, data) == Ok(Str(trimPlcString(DecodeCp1252(data))))

WSTRING_convertFromBuffer(dt, data) == Ok(Str(trimPlcString(DecodeUcs2(data))))

\* (mutation) pos is not advanced: every child is read from offset 0
RECURSIVE STRUCT_convertFromBufferSamePos(_, _, _, _, _)
STRUCT_convertFromBufferSamePos(children, data, k, obj, pos) ==
    IF k > Len(children) THEN Ok(Obj(obj))
    ELSE LET value == convertFromBuffer(children[k].dt,
                          BufferSlice(data, pos, pos + children[k].dt.byteLength))
         IN IF ~value.ok THEN value
            ELSE STRUCT_convertFromBufferSamePos(children, data, k + 1,
                     Append(obj, Prop(children[k].name, value.val)), pos)

\* the loop of STRUCT.convertFromBuffer, from child k on; obj holds the
\* properties set so far
RECURSIVE STRUCT_convertFromBufferLoop(_, _, _, _, _)
STRUCT_convertFromBufferLoop(children, data, k, obj, pos) ==
    IF k > Len(children) THEN Ok(Obj(obj))
    ELSE LET value == convertFromBuffer(children[k].dt,
                          BufferSlice(data, pos, pos + children[k].dt.byteLength))
         IN IF ~value.ok THEN value
            ELSE STRUCT_convertFromBufferLoop(children, data, k + 1,
                     Append(obj, Prop(children[k].name, value.val)),
                     pos + children[k].dt.byteLength)

STRUCT_convertFromBuffer(dt, data) ==
    STRUCT_convertFromBufferLoop(dt.children, data, 1, <<>>, 0)

\* (mutation) the read position advances from member to member, as in a STRUCT
RECURSIVE UNION_convertFromBufferAdvancing(_, _, _, _)
UNION_convertFromBufferAdvancing(children, data, k, obj) ==
    IF k > Len(children) THEN Ok(Obj(obj))
    ELSE LET pos == STRUCT_size(SubSeq(children, 1, k - 1), 1, 0)
             value == convertFromBuffer(children[k].dt,
                          BufferSlice(data, pos, pos + children[k].dt.byteLength))
         IN IF ~value.ok THEN value
            ELSE UNION_convertFromBufferAdvancing(children, data, k + 1,
                     Append(obj, Prop(children[k].name, value.val)))

RECURSIVE UNION_convertFromBufferLoop(_, _, _, _)
UNION_convertFromBufferLoop(children, data, k, obj) ==
    IF k > Len(children) THEN Ok(Obj(obj))
    ELSE LET value == convertFromBuffer(children[k].dt,
                          BufferSlice(data, 0, children[k].dt.byteLength))
         IN IF ~value.ok THEN value
            ELSE UNION_convertFromBufferLoop(children, data, k + 1,
                     Append(obj, Prop(children[k].name, value.val)))

UNION_convertFromBuffer(dt, data) ==
    UNION_convertFromBufferLoop(dt.children, data, 1, <<>>)

\* parseArray(arrayDimension) of ARRAY.convertFromBuffer, from loop index
\* `dimension` on; st is the result array so far with the read position pos
RECURSIVE ARRAY_convertFromBufferLoop(_, _, _, _, _)
ARRAY_convertFromBufferLoop(dt, data, arrayDimension, dimension, st) ==
    IF dimension >= DimensionSize(dt, arrayDimension) THEN Ok(st)
    ELSE IF MoreDimensions(dt, arrayDimension)
    THEN LET inner == ARRAY_convertFromBufferLoop(dt, data, arrayDimension + 1, 0,
                          [res |-> <<>>, pos |-> st.pos])
         IN IF ~inner.ok THEN inner
            ELSE ARRAY_convertFromBufferLoop(dt, data, arrayDimension,
                     dimension + 1,
                     [res |-> Append(st.res, Arr(inner.val.res)),
                      pos |-> inner.val.pos])
    ELSE LET value == convertFromBuffer(dt.dataType,
                          BufferSlice(data, st.pos, st.pos + dt.dataType.byteLength))
         IN IF ~value.ok THEN value
            ELSE ARRAY_convertFromBufferLoop(dt, data, arrayDimension,
                     dimension + 1,
                     [res |-> Append(st.res, value.val),
                      pos |-> st.pos + dt.dataType.byteLength])

ARRAY_convertFromBuffer(dt, data) ==
    LET done == ARRAY_convertFromBufferLoop(dt, data, 0, 0,
                    [res |-> <<>>, pos |-> 0])
    IN IF ~done.ok THEN done ELSE Ok(Arr(done.val.res))

\* an EnumEntry object { name, value }
EnumEntry(name, value) == Obj(<<Prop("name", name), Prop("value", value)>>)

\* this.definition[key] === value: a number never strictly equals a BigInt
StrictEqualsNumber(n, value) == value.t = "number" /\ value.n = n

\* ENUM.findEnumEntryByValue: the first key whose number is the value;
\* undefined when there is none
ENUM_findEnumEntryByValue(dt, value) ==
    IF \E i \in 1..Len(dt.definition) :
            StrictEqualsNumber(dt.definition[i].value, value)
    THEN LET i == CHOOSE i \in 1..Len(dt.definition) :
                    /\ StrictEqualsNumber(dt.definition[i].value, value)
                    /\ \A j \in 1..(i - 1) :
                           ~StrictEqualsNumber(dt.definition[j].value, value)
         IN EnumEntry(Str(dt.definition[i].name), value)
    ELSE Undefined

ENUM_convertFromBuffer(dt, data) ==
    LET value == convertFromBuffer(dt.dataType, data)
    IN IF ~value.ok THEN value
       ELSE IF Truthy(ENUM_findEnumEntryByValue(dt, value.val))
       THEN Ok(ENUM_findEnumEntryByValue(dt, value.val))
       ELSE Ok(EnumEntry(Undefined, value.val))

convertFromBuffer(dt, data) ==
    LET class == BaseClass(dt.type)
    IN CASE class = "STRUCT" -> STRUCT_convertFromBuffer(dt, data)
         [] class = "UNION" -> UNION_convertFromBuffer(dt, data)
         [] class = "ARRAY" -> ARRAY_convertFromBuffer(dt, data)
         [] class = "ENUM" -> ENUM_convertFromBuffer(dt, data)
         [] class = "STRING" -> STRING_convertFromBuffer(dt, data)
         [] class = "WSTRING" -> WSTRING_convertFromBuffer(dt, data)
         [] class = "BOOL" -> BOOL_convertFromBuffer(dt, data)
         [] class = "USINT" -> USINT_convertFromBuffer(dt, data)
         [] class = "SINT" -> SINT_convertFromBuffer(dt, data)
         [] class = "UINT" -> UINT_convertFromBuffer(dt, data)
         [] class = "INT" -> INT_convertFromBuffer(dt, data)
         [] class = "DINT" -> DINT_convertFromBuffer(dt, data)
         [] class = "UDINT" -> UDINT_convertFromBuffer(dt, data)
         [] class = "REAL" -> REAL_convertFromBuffer(dt, data)
         [] class = "LREAL" -> LREAL_convertFromBuffer(dt, data)
         [] class = "ULINT" -> ULINT_convertFromBuffer(dt, data)
         [] class = "LINT" -> LINT_convertFromBuffer(dt, data)

(***************************************************************************)
(* getDefault                                                              *)
(***************************************************************************)
RECURSIVE getDefault(_)

\* the loop of STRUCT.getDefault / UNION.getDefault
RECURSIVE STRUCT_getDefaultLoop(_, _, _)
STRUCT_getDefaultLoop(children, k, obj) ==
    IF k > Len(children) THEN Obj(obj)
    ELSE STRUCT_getDefaultLoop(children, k + 1,
             Append(obj, Prop(children[k].name, getDefault(children[k].dt))))

STRUCT_getDefault(dt) == STRUCT_getDefaultLoop(dt.children, 1, <<>>)

UNION_getDefault(dt) == STRUCT_getDefaultLoop(dt.children, 1, <<>>)

\* parseArray(arrayDimension) of ARRAY.getDefault
RECURSIVE ARRAY_getDefaultLevel(_, _)
ARRAY_getDefaultLevel(dt, arrayDimension) ==
    Arr([dimension \in 1..DimensionSize(dt, arrayDimension) |->
            IF MoreDimensions(dt, arrayDimension)
            THEN ARRAY_getDefaultLevel(dt, arrayDimension + 1)
            ELSE getDefault(dt.dataType)])

ARRAY_getDefault(dt) == ARRAY_getDefaultLevel(dt, 0)

\* (mutation) the entry that has the default number of the data type, not the
\* first entry
ENUM_getDefaultOfNumber(dt) ==
    IF Truthy(ENUM_findEnumEntryByValue(dt, getDefault(dt.dataType)))
    THEN ENUM_findEnumEntryByValue(dt, getDefault(dt.dataType))
    ELSE EnumEntry(Undefined, getDefault(dt.dataType))

\* ENUM.getDefault: the first key with its number; with no keys the default
\* of the data type, under the name of the entry that has it (there is none)
ENUM_getDefault(dt) ==
    IF Len(dt.definition) > 0
    THEN EnumEntry(Str(dt.definition[1].name), Num(dt.definition[1].value))
    ELSE IF Truthy(ENUM_findEnumEntryByValue(dt, getDefault(dt.dataType)))
         THEN ENUM_findEnumEntryByValue(dt, getDefault(dt.dataType))
         ELSE EnumEntry(Undefined, getDefault(dt.dataType))

getDefault(dt) ==
    LET class == BaseClass(dt.type)
    IN CASE class = "STRUCT" -> STRUCT_getDefault(dt)
         [] class = "UNION" -> UNION_getDefault(dt)
         [] class = "ARRAY" -> ARRAY_getDefault(dt)
         [] class = "ENUM" -> ENUM_getDefault(dt)
         [] class \in {"STRING", "WSTRING"} -> Str(<<>>)
         [] class = "BOOL" -> Bool(FALSE)
         [] OTHER -> Num(0)

(***************************************************************************)
(* The caller: builds a data type with the constructors, then converts     *)
(* values to bytes and bytes to values with it.                            *)
(***************************************************************************)
\* ENUM definitions used by the caller: names are strings of character codes
E_Mode == <<Member(<<79, 102, 102>>, 0),        \* Off  := 0
            Member(<<79, 110>>, 1),             \* On   := 1
            Member(<<65, 117, 116, 111>>, 1)>>  \* Auto := 1 (same number as On)
E_Run == <<Member(<<82, 117, 110>>, 5),         \* Run  := 5
           Member(<<72, 97, 108, 116>>, 7)>>    \* Halt := 7

NonComplexTypes ==
    {BOOL, USINT, BYTE, SINT, UINT, WORD, INT, DINT, UDINT, DWORD, TIME, TOD,
     TIME_OF_DAY, DT, DATE_AND_TIME, DATE, REAL, LREAL, ULINT, LWORD, LINT}

StringTypes ==
    {STRING_new(n) : n \in 0..MaxStrLen} \cup {WSTRING(n) : n \in 0..MaxStrLen}

EnumTypes ==
    {ENUM(E_Mode, Undefined), ENUM(E_Mode, USINT), ENUM(E_Mode, LINT),
     ENUM(E_Run, Undefined), ENUM(E_Run, DWORD), ENUM(<<>>, Undefined)}

\* the types the caller starts from
LeafTypes == NonComplexTypes \cup StringTypes \cup EnumTypes

\* the leaf types the caller builds composite types around
NestedLeafTypes ==
    {INT, ULINT, STRING_new(1), WSTRING(1), ENUM(E_Mode, Undefined)}

\* the dimensions the caller gives to ARRAY
ArrayDimensions == {<<MaxDim>>, <<MaxDim - 1, MaxDim>>, <<MaxDim, MaxDim - 1>>}

RECURSIVE Depth(_)
Depth(dt) ==
    CASE dt.type = "ARRAY" -> 1 + Depth(dt.dataType)
      [] HasChildren(dt) ->
            LET RECURSIVE deepest(_)
                deepest(k) == IF k > Len(dt.children) THEN 0
                              ELSE LET d == Depth(dt.children[k].dt)
                                       r == deepest(k + 1)
                                   IN IF d > r THEN d ELSE r
            IN 1 + deepest(1)
      [] OTHER -> 0

\* characters of the texts the caller converts: NUL, 'A', a character of the
\* upper half of cp1252, one whose low byte is 0 and that cp1252 lacks
Chars == {0, 65, 8364, 256}

RECURSIVE Texts(_)
Texts(n) ==
    IF n = 0 THEN {<<>>}
    ELSE Texts(n - 1) \cup {Append(t, c) : t \in Texts(n - 1), c \in Chars}

\* numbers the caller converts with an integer type of the given range
Numbers(lo, hi) == {Num(n) : n \in {lo, -1, 0, 1, 258, hi} \cap lo..hi}

\* values the caller converts with an ENUM
EnumInputs ==
    {Num(0), Num(1), Num(5), Num(9),
     Str(<<>>), Str(<<79, 110>>), Str(<<79, 78>>), Str(<<111, 102, 102>>),
     Str(<<82, 85, 78>>), Str(<<78, 111>>),
     EnumEntry(Str(<<79, 110>>), Num(1)), EnumEntry(Str(<<79, 102, 102>>), Num(0)),
     EnumEntry(Undefined, Num(0)), EnumEntry(Undefined, Num(9)),
     EnumEntry(Str(<<82, 117, 110>>), Num(5)),
     Obj(<<Prop("name", Str(<<97, 117, 116, 111>>))>>),
     Obj(<<Prop("value", Num(5))>>), Obj(<<>>), Bool(TRUE), Null}

\* the numbers next to the range of an integer type, on both sides
Beyond(lo, hi) == {Num(lo - 1), Num(hi + 1)}

\* values the caller converts with a leaf type standing alone (the numbers
\* next to the range of DINT and above the range of UDINT are no integers of
\* the model)
LeafInputs(dt) ==
    LET class == BaseClass(dt.type)
    IN CASE class = "BOOL" -> {Bool(TRUE), Bool(FALSE)}
         [] class = "USINT" -> Numbers(0, 255) \cup Beyond(0, 255)
         [] class = "SINT" -> Numbers(-128, 127) \cup Beyond(-128, 127)
         [] class = "UINT" -> Numbers(0, 65535) \cup Beyond(0, 65535)
         [] class = "INT" -> Numbers(-32768, 32767) \cup Beyond(-32768, 32767)
         [] class = "DINT" -> Numbers(-2147483647 - 1, 2147483647)
         [] class = "UDINT" -> Numbers(0, 2147483647) \cup {Num(-1)}
         [] class = "REAL" -> {Num(0), Num(1), Num(-2), Num(16777216), Num(16777217)}
         [] class = "LREAL" -> {Num(0), Num(1), Num(-3), Num(2147483647)}
         [] class = "ULINT" -> {Big(0), Big(1), Big(2147483647)}
         [] class = "LINT" -> {Big(0), Big(1), Big(-2), Big(-2147483647 - 1)}
         [] class = "STRING" -> {Str(t) : t \in Texts(dt.byteLength + 1)}
         [] class = "WSTRING" -> {Str(t) : t \in Texts(dt.byteLength \div 2 + 1)}
         [] class = "ENUM" -> EnumInputs

\* values the caller gives to a leaf inside a composite type
NestedLeafInputs(dt) ==
    LET class == BaseClass(dt.type)
    IN CASE class = "INT" -> {Num(0), Num(258)}
         [] class = "USINT" -> {Num(0), Num(7)}
         [] class = "ULINT" -> {Big(0), Big(258)}
         [] class = "STRING" -> {Str(<<>>), Str(<<65>>), Str(<<65, 65, 65>>)}
         [] class = "WSTRING" -> {Str(<<>>), Str(<<256>>)}
         [] class = "ENUM" -> {Num(0), Num(1), Str(<<79, 110>>),
                               EnumEntry(Str(<<79, 110>>), Num(1))}
         [] OTHER -> LeafInputs(dt)

\* the nested array value of the given dimensions whose elements, in row-major
\* order, are flat[from + 1], flat[from + 2], ...
RECURSIVE Nest(_, _, _, _)
Nest(dimensions, d, flat, from) ==
    IF d = Len(dimensions)
    THEN Arr([i \in 1..dimensions[d] |-> flat[from + i]])
    ELSE LET RECURSIVE span(_)
             span(k) == IF k > Len(dimensions) THEN 1 ELSE dimensions[k] * span(k + 1)
         IN Arr([i \in 1..dimensions[d] |->
                    Nest(dimensions, d + 1, flat, from + (i - 1) * span(d + 1))])

\* value trees for a data type: every combination of the children's values
\* (a missing member included) for STRUCT / UNION; for ARRAY one element that
\* may differ from the others, which all hold the same value (the default of
\* the element type or another one)
RECURSIVE Inputs(_)
RECURSIVE MemberInputs(_, _)
MemberInputs(children, k) ==
    IF k > Len(children) THEN {<<>>}
    ELSE {<<Prop(children[k].name, v)>> \o rest :
            v \in Inputs(children[k].dt) \cup {Undefined},
            rest \in MemberInputs(children, k + 1)}

BaseInput(dt) ==
    LET class == BaseClass(dt.type)
    IN CASE class \in {"ULINT", "LINT"} -> Big(0)
         [] OTHER -> getDefault(dt)

\* a value other than the default one, where the type has one
RECURSIVE OtherInput(_)
OtherInput(dt) ==
    LET class == BaseClass(dt.type)
    IN CASE class \in {"INT", "UINT", "DINT", "UDINT", "REAL", "LREAL"} -> Num(258)
         [] class \in {"USINT", "SINT"} -> Num(7)
         [] class \in {"ULINT", "LINT"} -> Big(258)
         [] class = "BOOL" -> Bool(TRUE)
         [] class = "STRING" -> IF dt.byteLength > 1 THEN Str(<<65>>) ELSE Str(<<>>)
         [] class = "WSTRING" -> IF dt.byteLength > 2 THEN Str(<<256>>) ELSE Str(<<>>)
         [] class = "ENUM" -> IF Len(dt.definition) > 1
                              THEN Num(dt.definition[2].value) ELSE Num(9)
         [] class \in {"STRUCT", "UNION"} ->
                Obj([k \in 1..Len(dt.children) |->
                        Prop(dt.children[k].name, OtherInput(dt.children[k].dt))])
         [] class = "ARRAY" ->
                Nest(dt.dimensions, 1,
                     [i \in 1..dt.totalSize |-> OtherInput(dt.dataType)], 0)

Inputs(dt) ==
    CASE HasChildren(dt) -> {Obj(ps) : ps \in MemberInputs(dt.children, 1)}
      [] dt.type = "ARRAY" ->
            {Nest(dt.dimensions, 1,
                  [i \in 1..dt.totalSize |-> IF i = k THEN v ELSE others], 0) :
                k \in 1..dt.totalSize, v \in Inputs(dt.dataType) \cup {Undefined},
                others \in {BaseInput(dt.dataType), OtherInput(dt.dataType)}}
      [] OTHER -> NestedLeafInputs(dt)

\* bytes of the buffers the caller receives for a STRING / WSTRING
RawBytes == {0, 65, 128}

\* numbers whose bytes the caller receives for an ENUM
RawNumbers == {-1, 0, 1, 5, 9}

Received(dt) ==
    CASE dt.type \in {"STRING", "WSTRING"} -> [1..dt.byteLength -> RawBytes]
      [] dt.type = "ENUM" ->
            {LEBytes(n, dt.byteLength) : n \in RawNumbers \cap
                (IF dt.dataType.type \in {"USINT", "DWORD"} THEN 0..9 ELSE -1..9)}
      [] OTHER -> {}

NotCalled == Throw("not called")

Init ==
    /\ schema \in LeafTypes
    /\ input = Undefined
    /\ encoded = NotCalled
    /\ decoded = NotCalled
    /\ yielded = <<>>
    /\ pc = "new"
    /\ iterators = <<>>
    /\ resolver = [phase |-> "idle"]

CanNest ==
    /\ pc = "new"
    /\ Depth(schema) < MaxDepth
    /\ (Depth(schema) = 0 => schema \in NestedLeafTypes)

\* iec.STRUCT({...}) around the current type, which comes first or last
NewSTRUCT ==
    /\ CanNest
    /\ schema' \in {STRUCT(<<Child("a", schema), Child("b", INT)>>),
                    STRUCT(<<Child("b", USINT), Child("a", schema)>>)}
    /\ schema'.byteLength <= MaxBytes
    /\ UNCHANGED <<input, encoded, decoded, yielded, pc, iterators, resolver>>

\* iec.UNION({...}) around the current type, which comes first or last
NewUNION ==
    /\ CanNest
    /\ schema' \in {UNION_new(<<Child("a", schema), Child("b", INT)>>),
                    UNION_new(<<Child("b", USINT), Child("a", schema)>>)}
    /\ schema'.byteLength <= MaxBytes
    /\ UNCHANGED <<input, encoded, decoded, yielded, pc, iterators, resolver>>

\* iec.ARRAY(dataType, dimensions) of the current type
NewARRAY ==
    /\ CanNest
    /\ \E dimensions \in ArrayDimensions : schema' = ARRAY(schema, dimensions)
    /\ schema'.byteLength <= MaxBytes
    /\ UNCHANGED <<input, encoded, decoded, yielded, pc, iterators, resolver>>

\* the caller makes up a value (or has none: undefined)
ChooseValue ==
    /\ pc = "new"
    /\ input' \in (IF Depth(schema) = 0 THEN LeafInputs(schema) ELSE Inputs(schema))
                  \cup {Undefined}
    /\ pc' = "value"
    /\ UNCHANGED <<schema, encoded, decoded, yielded, iterators, resolver>>

\* schema.getDefault()
GetDefault ==
    /\ pc = "new"
    /\ input' = getDefault(schema)
    /\ pc' = "default"
    /\ UNCHANGED <<schema, encoded, decoded, yielded, iterators, resolver>>

\* schema.convertToBuffer(input)
ConvertToBuffer ==
    /\ pc \in {"value", "default"}
    /\ encoded' = convertToBuffer(schema, input)
    /\ pc' = IF pc = "value" THEN "encoded" ELSE "defaultEncoded"
    /\ UNCHANGED <<schema, input, decoded, yielded, iterators, resolver>>

\* the caller receives byteLength bytes from elsewhere
Receive ==
    /\ pc = "new"
    /\ \E bytes \in Received(schema) : encoded' = Ok(bytes)
    /\ pc' = "received"
    /\ UNCHANGED <<schema, input, decoded, yielded, iterators, resolver>>

\* schema.convertFromBuffer(buffer) on the bytes converted or received last
ConvertFromBuffer ==
    /\ pc \in {"encoded", "defaultEncoded", "received"}
    /\ encoded.ok
    /\ decoded' = convertFromBuffer(schema, encoded.val)
    /\ pc' = CASE pc = "encoded" -> "decoded"
               [] pc = "defaultEncoded" -> "defaultDecoded"
               [] pc = "received" -> "receivedDecoded"
    /\ UNCHANGED <<schema, input, encoded, yielded, iterators, resolver>>

\* for (const variable of schema) {...}, run to the end
VariableIterator ==
    /\ pc = "new"
    /\ yielded' = variableIterator(schema)
    /\ pc' = "iterated"
    /\ UNCHANGED <<schema, input, encoded, decoded, iterators, resolver>>

\* for (const variable of schema.elementIterator()) {...}, run to the end
ElementIterator ==
    /\ pc = "new"
    /\ yielded' = elementIterator(schema)
    /\ pc' = "elements"
    /\ UNCHANGED <<schema, input, encoded, decoded, iterators, resolver>>

\* const it = schema.variableIterator(), or schema[Symbol.iterator]()
StartVariableIterator ==
    /\ Len(iterators) < MaxIterators
    /\ iterators' = Append(iterators,
                           Generator("variableIterator", startIndexLocal(schema, iterators)))
    /\ UNCHANGED <<schema, input, encoded, decoded, yielded, pc, resolver>>

\* const it = schema.elementIterator()
StartElementIterator ==
    /\ Len(iterators) < MaxIterators
    /\ iterators' = Append(iterators,
                           Generator("elementIterator", startIndexLocal(schema, iterators)))
    /\ UNCHANGED <<schema, input, encoded, decoded, yielded, pc, resolver>>

\* it.next() on any of the traversals that has not reported its end
GeneratorStep ==
    /\ \E i \in 1..Len(iterators) :
          /\ ~iterators[i].done
          /\ iterators' = [iterators EXCEPT ![i] = GeneratorNext(schema, iterators[i])]
    /\ UNCHANGED <<schema, input, encoded, decoded, yielded, pc, resolver>>

Next ==
    \/ NewSTRUCT
    \/ NewUNION
    \/ NewARRAY
    \/ ChooseValue
    \/ GetDefault
    \/ ConvertToBuffer
    \/ Receive
    \/ ConvertFromBuffer
    \/ VariableIterator
    \/ ElementIterator

Spec == Init /\ [][Next]_vars

(***************************************************************************)
(* Several traversals of one data type, started at any time, advanced in   *)
(* any order and left at any point, between the other calls on the type.   *)
(***************************************************************************)
TraversedTypes ==
    {INT,
     STRUCT(<<Child("a", STRING_new(1)), Child("b", INT)>>),
     STRUCT(<<Child("a", UNION_new(<<Child("a", INT), Child("b", USINT)>>)),
              Child("b", ARRAY(INT, <<MaxDim>>))>>),
     UNION_new(<<Child("a", ARRAY(USINT, <<MaxDim>>)), Child("b", BOOL)>>),
     ARRAY(ARRAY(USINT, <<1, 2>>), <<MaxDim>>)}

InitTraversals ==
    /\ schema \in TraversedTypes
    /\ input = Undefined
    /\ encoded = NotCalled
    /\ decoded = NotCalled
    /\ yielded = <<>>
    /\ pc = "new"
    /\ iterators = <<>>
    /\ resolver = [phase |-> "idle"]

NextTraversals ==
    \/ StartVariableIterator
    \/ StartElementIterator
    \/ GeneratorStep
    \/ GetDefault
    \/ ConvertToBuffer
    \/ ConvertFromBuffer

SpecTraversals == InitTraversals /\ [][NextTraversals]_vars

(***************************************************************************)
(* Resolving type declarations to data types (iec-types.ts).  A text is a  *)
(* sequence of characters; a regular expression is modelled by what it     *)
(* matches and captures in a text.                                         *)
(***************************************************************************)
\* the characters of the type names
typeName ==
    ("BOOL" :> <<66, 79, 79, 76>>) @@
    ("USINT" :> <<85, 83, 73, 78, 84>>) @@
    ("BYTE" :> <<66, 89, 84, 69>>) @@
    ("SINT" :> <<83, 73, 78, 84>>) @@
    ("UINT" :> <<85, 73, 78, 84>>) @@
    ("WORD" :> <<87, 79, 82, 68>>) @@
    ("INT" :> <<73, 78, 84>>) @@
    ("DINT" :> <<68, 73, 78, 84>>) @@
    ("UDINT" :> <<85, 68, 73, 78, 84>>) @@
    ("DWORD" :> <<68, 87, 79, 82, 68>>) @@
    ("TIME" :> <<84, 73, 77, 69>>) @@
    ("TOD" :> <<84, 79, 68>>) @@
    ("TIME_OF_DAY" :> <<84, 73, 77, 69, 95, 79, 70, 95, 68, 65, 89>>) @@
    ("DT" :> <<68, 84>>) @@
    ("DATE_AND_TIME" :> <<68, 65, 84, 69, 95, 65, 78, 68, 95, 84, 73, 77, 69>>) @@
    ("DATE" :> <<68, 65, 84, 69>>) @@
    ("REAL" :> <<82, 69, 65, 76>>) @@
    ("LREAL" :> <<76, 82, 69, 65, 76>>) @@
    ("ULINT" :> <<85, 76, 73, 78, 84>>) @@
    ("LWORD" :> <<76, 87, 79, 82, 68>>) @@
    ("LINT" :> <<76, 73, 78, 84>>)

\* the words of the patterns (matched in any letter case)
wordSTRING == <<115, 116, 114, 105, 110, 103>>    \* string
wordWSTRING == <<119, 115, 116, 114, 105, 110, 103>>  \* wstring
wordARRAY == <<97, 114, 114, 97, 121>>      \* array
wordOF == <<111, 102>>            \* of
wordDots == <<46, 46>>          \* ..

Whitespace == {9, 10, 13, 32}     \* tab, line feed, carriage return, blank
Digits == 48..57       \* 0 to 9
Opening == {91, 40}    \* [ and (
Closing == {93, 41}    \* ] and )

\* the first position from p on that holds no white space
RECURSIVE skipSpace(_, _)
skipSpace(text, p) ==
    IF p <= Len(text) /\ text[p] \in Whitespace THEN skipSpace(text, p + 1) ELSE p

\* the first position from p on that holds a character of the set (or the
\* position after the end of the text)
RECURSIVE skipTo(_, _, _)
skipTo(text, p, stops) ==
    IF p <= Len(text) /\ text[p] \notin stops THEN skipTo(text, p + 1, stops) ELSE p

\* the word stands in the text at position p, in any letter case
wordAt(text, p, word) ==
    /\ p + Len(word) - 1 <= Len(text)
    /\ toLowerCase(SubSeq(text, p, p + Len(word) - 1)) = word

\* parseInt(text): white space, a sign, then the digits there are; NaN
\* without a digit
RECURSIVE parseDigits(_, _, _)
parseDigits(text, p, value) ==
    IF p <= Len(text) /\ text[p] \in Digits
    THEN parseDigits(text, p + 1, value * 10 + (text[p] - 48))
    ELSE value

parseInt(text) ==
    LET p == skipSpace(text, 1)
        signed == p <= Len(text) /\ text[p] \in {45, 43}
        q == IF signed THEN p + 1 ELSE p
    IN IF q > Len(text) \/ text[q] \notin Digits THEN NaN
       ELSE Num(IF signed /\ text[p] = 45 THEN 0 - parseDigits(text, q, 0)
                ELSE parseDigits(text, q, 0))

\* nonComplexTypes: the available non-complex types, in the order of the list
nonComplexTypes ==
    <<BOOL, USINT, BYTE, SINT, UINT, WORD, INT, DINT, UDINT, DWORD, TIME, TOD,
      TIME_OF_DAY, DT, DATE_AND_TIME, DATE, REAL, LREAL, ULINT, LWORD, LINT>>

\* Array.prototype.find over positions: the first position from k on whose
\* name is the wanted one in any letter case, 0 when there is none
RECURSIVE findLowerCase(_, _, _)
findLowerCase(names, wanted, k) ==
    IF k > Len(names) THEN 0
    ELSE IF names[k] = wanted THEN k
    ELSE findLowerCase(names, wanted, k + 1)

\* (mutation) the names are compared as they are written
findExact(names, wanted, k) == findLowerCase(names, wanted, k)

findName(names, wanted, k) ==
    findLowerCase([n \in 1..Len(names) |-> toLowerCase(names[n])],
                  toLowerCase(wanted), k)

\* (mutation) no name is taken for the name of a non-complex type
noNonComplexNames == [k \in 1..Len(nonComplexTypes) |-> <<>>]

\* type.type.toLowerCase() of the non-complex types, in the order of the list
nonComplexNames ==
    [k \in 1..Len(nonComplexTypes) |-> toLowerCase(typeName[nonComplexTypes[k].type])]

\* stringRegEx, the part after the word: no group, or groups that open with
\* [ or ( and close with ) or ], each as short as the rest of the text
\* allows; the capture is the content of the last group
RECURSIVE stringGroups(_, _)
RECURSIVE stringGroupFrom(_, _)
stringGroupFrom(rest, c) ==
    IF c > Len(rest) THEN Null
    ELSE IF rest[c] \in Closing
    THEN LET more == stringGroups(SubSeq(rest, c + 1, Len(rest)),
                                  Str(SubSeq(rest, 2, c - 1)))
         IN IF more # Null THEN more ELSE stringGroupFrom(rest, c + 1)
    ELSE stringGroupFrom(rest, c + 1)

stringGroups(rest, last) ==
    IF rest = <<>> THEN [length |-> last]
    ELSE IF rest[1] \in Opening THEN stringGroupFrom(rest, 2)
    ELSE Null

\* stringRegEx.exec(dataType): null, or the word and the length text
stringRegEx(dataType) ==
    LET word == IF wordAt(dataType, 1, wordWSTRING) THEN wordWSTRING
                ELSE IF wordAt(dataType, 1, wordSTRING) THEN wordSTRING
                ELSE <<>>
        groups == stringGroups(SubSeq(dataType, Len(word) + 1, Len(dataType)),
                               Undefined)
    IN IF word = <<>> \/ groups = Null THEN Null
       ELSE [word |-> word, length |-> groups.length]

\* arrayRegEx tried at position p: the word array, brackets, the dimensions
\* up to the first closing bracket that the word of follows, then the text
\* of the element type up to a colon or semicolon
RECURSIVE arrayClose(_, _)
arrayClose(text, c) ==
    IF c > Len(text) THEN 0
    ELSE IF text[c] \in Closing /\ wordAt(text, skipSpace(text, c + 1), wordOF)
    THEN c
    ELSE arrayClose(text, c + 1)

RECURSIVE skipOpen(_, _)
skipOpen(text, p) ==
    IF p <= Len(text) /\ text[p] \in Opening THEN skipOpen(text, p + 1) ELSE p

arrayAt(text, p) ==
    LET open == skipSpace(text, p + Len(wordARRAY))
        from == skipOpen(text, open)
        close == arrayClose(text, from)
        element == skipSpace(text, skipSpace(text, close + 1) + Len(wordOF))
    IN IF ~wordAt(text, p, wordARRAY) \/ from = open \/ close = 0 THEN Null
       ELSE [dimensions |-> SubSeq(text, from, close - 1),
             dataType |-> SubSeq(text, element,
                                 skipTo(text, element, {58, 59}) - 1)]

\* arrayRegEx.exec(dataType): the first position of the text that matches
RECURSIVE arrayRegEx(_, _)
arrayRegEx(dataType, p) ==
    IF p > Len(dataType) THEN Null
    ELSE LET match == arrayAt(dataType, p)
         IN IF match # Null THEN match ELSE arrayRegEx(dataType, p + 1)

\* the loop over arrayDimensionsRegEx: every lower..upper of the text gives
\* the dimension parseInt(upper) - parseInt(lower) + 1
RECURSIVE arrayDimensions(_, _)
arrayDimensions(text, p) ==
    IF p > Len(text) THEN <<>>
    ELSE LET lower == skipSpace(text, p)
             dots == skipSpace(text, skipTo(text, lower, {46, 44} \cup Whitespace))
             upper == skipSpace(text, dots + Len(wordDots))
             end == skipTo(text, upper, {44} \cup Whitespace)
         IN IF wordAt(text, dots, wordDots)
            THEN <<parseInt(SubSeq(text, upper, end - 1)).n
                   - parseInt(SubSeq(text, lower, dots - 1)).n + 1>>
                 \o arrayDimensions(text, skipSpace(text, end))
            ELSE arrayDimensions(text, p + 1)

\* what extractTypeDeclarations gives for one TYPE ... END_TYPE of the text
ExtractedType(name, type, content) ==
    [name |-> name, type |-> type, content |-> content, resolved |-> Undefined]

ExtractedTypeVariable(name, dataType) == [name |-> name, dataType |-> dataType]
ExtractedEnum(dataType, content) == [dataType |-> dataType, content |-> content]
ExtractedAlias(dataType) == [dataType |-> dataType]

\* enumRegEx after the name: white space, then := with a value any number
\* of times (the last value is the one captured), then a comma or the end
\* of the text; null, or the value and the position after the match
RECURSIVE enumTail(_, _, _)
RECURSIVE enumValue(_, _, _)
enumTail(text, q, value) ==
    LET next == skipSpace(text, q)
    IN IF wordAt(text, next, <<58, 61>>)
       THEN enumValue(text, skipSpace(text, next + 2), skipSpace(text, next + 2))
       ELSE IF next > Len(text) THEN [value |-> value, lastIndex |-> next]
       ELSE IF text[next] = 44 THEN [value |-> value, lastIndex |-> next + 1]
       ELSE Null

\* (.*?) of enumRegEx: the shortest value after which the rest matches
enumValue(text, from, to) ==
    LET rest == enumTail(text, to, Str(SubSeq(text, from, to - 1)))
    IN IF rest # Null THEN rest ELSE enumValue(text, from, to + 1)

\* (.+?) of enumRegEx: the shortest name, of one character at least, after
\* which the rest matches
RECURSIVE enumName(_, _, _)
enumName(text, from, to) ==
    LET rest == enumTail(text, to, Undefined)
    IN IF rest # Null
       THEN [name |-> SubSeq(text, from, to - 1), value |-> rest.value,
             lastIndex |-> rest.lastIndex]
       ELSE enumName(text, from, to + 1)

\* enumRegEx.exec(declaration) from the position lastIndex on (positions
\* count from 1): null at the end of the text; the leading white space is
\* passed over, but gives its last character back for the name when nothing
\* follows it
enumRegEx(declaration, lastIndex) ==
    LET from == skipSpace(declaration, lastIndex)
    IN IF lastIndex > Len(declaration) THEN Null
       ELSE IF from > Len(declaration) THEN enumName(declaration, from - 1, from)
       ELSE enumName(declaration, from, from + 1)

\* (mutation) a member without a value gets its place in the list
omittedValueByPlace(enumList) == Len(enumList)

\* the value of a member that is written without one: the value of the
\* member before it + 1, and 0 for the first member
omittedValue(enumList) ==
    IF Len(enumList) > 0 THEN enumList[Len(enumList)].value + 1 ELSE 0

\* extractedEnum.content[name] = value: a key that is there keeps its place
setContent(content, name, value) ==
    IF \E k \in 1..Len(content) : content[k].name = name
    THEN [k \in 1..Len(content) |->
             IF content[k].name = name THEN Member(name, value) ELSE content[k]]
    ELSE Append(content, Member(name, value))

\* extractEnum(declaration, dataType) up to its loop: INT when no data type
\* is written
extractEnum(declaration, dataType) ==
    [phase |-> "extracting", declaration |-> declaration,
     dataType |-> IF dataType = Undefined \/ dataType = Str(<<>>)
                  THEN typeName["INT"] ELSE dataType.s,
     lastIndex |-> 1, enumList |-> <<>>, content |-> <<>>,
     returned |-> Throw([error |-> "not returned"])]

\* one turn of the loop of extractEnum: the next match gives a member and
\* its value, or there is no match and the enumeration is returned
extractEnumLoop(call) ==
    LET match == enumRegEx(call.declaration, call.lastIndex)
        parsed == IF match.value = Undefined THEN Undefined
                  ELSE parseInt(match.value.s)
        value == IF parsed = Undefined THEN Num(omittedValue(call.enumList))
                 ELSE parsed
    IN IF match = Null
       THEN [call EXCEPT !.phase = "done",
                         !.returned = Ok(ExtractedEnum(call.dataType, call.content))]
       ELSE IF value = NaN
       THEN [call EXCEPT !.phase = "done",
                         !.returned = Throw([error |-> "Problem calculating ENUM entry",
                                             name |-> match.name,
                                             value |-> match.value.s])]
       ELSE [call EXCEPT !.lastIndex = match.lastIndex,
                         !.enumList = Append(@, Member(match.name, value.n)),
                         !.content = setContent(@, match.name, value.n)]

\* types.map(type => type.name)
NamesOf(types) == [k \in 1..Len(types) |-> types[k].name]

\* (mutation) the loop resolves every unit, resolved before or not
neverResolved(type) == FALSE

\* if (type.resolved) continue: the loop passes over a unit resolved before
alreadyResolved(type) == type.resolved # Undefined

\* (mutation) the error tells the text only
UnknownDataTypeBare(dataType, types, providedTypes) ==
    [error |-> "Unknown data type", dataType |-> dataType,
     types |-> <<>>, providedTypes |-> Undefined]

\* the error of an unknown data type: the text, the names of the units and
\* the names of the provided types (undefined when none are provided)
UnknownDataType(dataType, types, providedTypes) ==
    [error |-> "Unknown data type", dataType |-> dataType,
     types |-> NamesOf(types),
     providedTypes |-> IF providedTypes = Undefined THEN Undefined
                       ELSE Arr([k \in 1..Len(providedTypes) |-> providedTypes[k].k])]

\* (mutation) a unit that is not resolved yet, because it is declared further
\* down in the text, is taken for unknown
CallRefused(unit) == Throw([error |-> "Unknown data type", unit |-> unit])

\* resolveIecVariable has to resolve the unit first (a call of
\* resolveIecDataTypeUnit, taken as a step of its own)
Call(unit) == [ok |-> FALSE, call |-> unit]

\* resolveIecVariable(dataType, types, providedTypes): the data type of the
\* text, an error, or the unit that is to be resolved before
RECURSIVE resolveIecVariable(_, _, _)
resolveIecVariable(dataType, types, providedTypes) ==
    LET simple == findLowerCase(nonComplexNames, toLowerCase(dataType), 1)
        stringMatch == stringRegEx(dataType)
        arrayMatch == arrayRegEx(dataType, 1)
        dataTypeUnit == findName(NamesOf(types), dataType, 1)
    IN IF simple # 0 THEN Ok(nonComplexTypes[simple])
       ELSE IF stringMatch # Null
       THEN LET length == IF Truthy(stringMatch.length)
                          THEN parseInt(stringMatch.length.s).n ELSE 80
            IN Ok(IF stringMatch.word = wordSTRING THEN STRING_new(length)
                  ELSE WSTRING(length))
       ELSE IF arrayMatch # Null
       THEN LET type == resolveIecVariable(arrayMatch.dataType, types, providedTypes)
            IN IF type.ok
               THEN Ok(ARRAY(type.val, arrayDimensions(arrayMatch.dimensions, 1)))
               ELSE type
       ELSE IF dataTypeUnit # 0
       THEN (IF types[dataTypeUnit].resolved # Undefined
             THEN Ok(types[dataTypeUnit].resolved)
             ELSE Call(dataTypeUnit))
       ELSE IF providedTypes # Undefined
       THEN LET key == findName([k \in 1..Len(providedTypes) |-> providedTypes[k].k],
                                dataType, 1)
            IN IF key # 0 THEN Ok(providedTypes[key].v)
               ELSE Throw(UnknownDataType(dataType, types, providedTypes))
       ELSE Throw(UnknownDataType(dataType, types, providedTypes))

\* the texts resolveIecDataTypeUnit resolves for a unit, in its order
TextsOf(type) ==
    IF type.type \in {"STRUCT", "UNION"}
    THEN [k \in 1..Len(type.content) |-> type.content[k].dataType]
    ELSE <<type.content.dataType>>

\* an object built during the call, told from every other one by the number
\* of its creation
Created(object, number) ==
    [f \in DOMAIN object \cup {"object"} |->
        IF f = "object" THEN number ELSE object[f]]

\* (mutation) an alias gets a data type of its own: a copy of the data type
\* of its text
resolveIecDataTypeUnitCopy(type, resolved, number) ==
    CASE type.type = "STRUCT" ->
           Created(STRUCT([k \in 1..Len(resolved) |->
                             Child(type.content[k].name, resolved[k])]), number)
      [] type.type = "UNION" ->
           Created(UNION_new([k \in 1..Len(resolved) |->
                                Child(type.content[k].name, resolved[k])]), number)
      [] type.type = "ENUM" ->
           Created(ENUM(type.content.content, resolved[1]), number)
      [] type.type = "ALIAS" -> Created(resolved[1], number + 1)

\* what resolveIecDataTypeUnit returns once the texts of the unit are
\* resolved to the data types given: a new STRUCT, UNION or ENUM, or, for an
\* ALIAS, the data type of its text itself
resolveIecDataTypeUnit(type, resolved, number) ==
    CASE type.type = "STRUCT" ->
           Created(STRUCT([k \in 1..Len(resolved) |->
                             Child(type.content[k].name, resolved[k])]), number)
      [] type.type = "UNION" ->
           Created(UNION_new([k \in 1..Len(resolved) |->
                                Child(type.content[k].name, resolved[k])]), number)
      [] type.type = "ENUM" ->
           Created(ENUM(type.content.content, resolved[1]), number)
      [] type.type = "ALIAS" -> resolved[1]

\* a call of resolveIecDataTypeUnit under way: the unit, and the data types
\* of its texts resolved so far
Frame(unit) == [unit |-> unit, resolved |-> <<>>]

\* resolveIecTypes up to its loop: the units are extracted, and without a
\* top-level name a single unit is the top level
resolveIecTypes(declarations, topLevelDataType, providedTypes, previous) ==
    LET types == declarations
        call == [phase |-> "resolving", declarations |-> declarations,
                 given |-> topLevelDataType, providedTypes |-> providedTypes,
                 types |-> types, topLevelDataType |-> topLevelDataType,
                 i |-> 1, stack |-> <<>>, objects |-> 0,
                 returned |-> NotCalled, previous |-> previous]
    IN IF ~Truthy(topLevelDataType) /\ Len(types) > 1
       THEN [call EXCEPT !.phase = "done",
                         !.returned = Throw([error |-> "Top level data type name is not given"])]
       ELSE IF ~Truthy(topLevelDataType)
       THEN (IF Len(types) = 0
             THEN [call EXCEPT !.phase = "done",
                               !.returned = Throw([error |-> "TypeError"])]
             ELSE [call EXCEPT !.topLevelDataType = Str(types[1].name)])
       ELSE call

(***************************************************************************)
(* The caller of resolveIecTypes: declares some units in some order,       *)
(* resolves them, and resolves the same units again in another order.      *)
(***************************************************************************)
\* TYPE A : c; END_TYPE
\* TYPE B : UNION a : ARRAY[0..1, 1..1] OF c; b : STRING(1); END_UNION END_TYPE
\* TYPE C : (Run := 5, Halt := 7) D; END_TYPE
\* TYPE D : uint; END_TYPE
\* TYPE a : STRUCT a : d; b : C; END_STRUCT END_TYPE
\* TYPE E : STRUCT a : INT; b : e; END_STRUCT END_TYPE
\* TYPE d : usint; END_TYPE
\* TYPE UINT : A; END_TYPE
Declarations ==
    {ExtractedType(<<65>>, "ALIAS", ExtractedAlias(<<99>>)),
     ExtractedType(<<66>>, "UNION",
        <<ExtractedTypeVariable("a", <<65, 82, 82, 65, 89, 91, 48, 46, 46, 49, 44, 32, 49, 46, 46, 49, 93, 32, 79, 70, 32, 99>>),
          ExtractedTypeVariable("b", <<83, 84, 82, 73, 78, 71, 40, 49, 41>>)>>),
     ExtractedType(<<67>>, "ENUM", ExtractedEnum(<<68>>, E_Run)),
     ExtractedType(<<68>>, "ALIAS", ExtractedAlias(<<117, 105, 110, 116>>)),
     ExtractedType(<<97>>, "STRUCT",
        <<ExtractedTypeVariable("a", <<100>>),
          ExtractedTypeVariable("b", <<67>>)>>),
     ExtractedType(<<69>>, "STRUCT",
        <<ExtractedTypeVariable("a", <<73, 78, 84>>),
          ExtractedTypeVariable("b", <<101>>)>>),
     ExtractedType(<<100>>, "ALIAS", ExtractedAlias(<<117, 115, 105, 110, 116>>)),
     ExtractedType(<<85, 73, 78, 84>>, "ALIAS", ExtractedAlias(<<65>>))}

\* the texts the caller may pass: up to MaxUnits of the units, in any order
Batches ==
    {units \in UNION {[1..n -> Declarations] : n \in 0..MaxUnits} :
        \A p, q \in DOMAIN units : p # q => units[p] # units[q]}

\* the top-level names the caller may pass: none, the name of a unit of the
\* text, the name of its first unit in lower case, or a name the text does
\* not declare
TopLevels(declarations) ==
    {Undefined, Str(<<90>>)}
        \cup {Str(declarations[k].name) : k \in DOMAIN declarations}
        \cup {Str(toLowerCase(declarations[k].name)) : k \in DOMAIN declarations \cap {1}}

\* the text with the unit at p and the one after it exchanged
Exchange(declarations, p) ==
    [declarations EXCEPT ![p] = declarations[p + 1], ![p + 1] = declarations[p]]

\* what the caller keeps of an earlier call: its text and what it returned
Earlier(call) == [declarations |-> call.declarations, returned |-> call.returned]
NoResult == [declarations |-> <<>>, returned |-> Throw([error |-> "no call"])]

\* the call ends with an error: nothing of it is left
Thrown(call, error) ==
    [call EXCEPT !.phase = "done", !.stack = <<>>, !.returned = Throw(error)]

\* the data types the caller may provide by name: none, or a struct built
\* before under the name c together with BOOL under the name UINT
ProvidedTypes ==
    {Undefined,
     <<Prop(<<99>>, Created(STRUCT(<<Child("a", INT)>>), 0)),
       Prop(<<85, 73, 78, 84>>, BOOL)>>}

\* iec.resolveIecTypes(text, topLevelDataType, providedTypes)
ResolveIecTypes ==
    /\ resolver.phase = "idle"
    /\ \E declarations \in Batches :
          \E topLevelDataType \in TopLevels(declarations) :
             \E providedTypes \in ProvidedTypes :
                resolver' = resolveIecTypes(declarations, topLevelDataType,
                                            providedTypes, NoResult)
    /\ UNCHANGED <<schema, input, encoded, decoded, yielded, pc, iterators>>

\* for (const type of types): a resolved unit is skipped, any other is
\* handed to resolveIecDataTypeUnit
NextType ==
    /\ resolver.phase = "resolving"
    /\ resolver.stack = <<>>
    /\ resolver.i <= Len(resolver.types)
    /\ resolver' = IF alreadyResolved(resolver.types[resolver.i])
                   THEN [resolver EXCEPT !.i = resolver.i + 1]
                   ELSE [resolver EXCEPT !.stack = <<Frame(resolver.i)>>]
    /\ UNCHANGED <<schema, input, encoded, decoded, yielded, pc, iterators>>

\* resolveIecDataTypeUnit resolves the next text of its unit: the data type
\* is there, or resolveIecVariable calls resolveIecDataTypeUnit for the unit
\* of that name (without end when that unit is being resolved already: the
\* call stack overflows), or the text is unknown
ResolveVariable ==
    /\ resolver.phase = "resolving"
    /\ resolver.stack # <<>>
    /\ LET top == Len(resolver.stack)
           frame == resolver.stack[top]
           texts == TextsOf(resolver.types[frame.unit])
           type == resolveIecVariable(texts[Len(frame.resolved) + 1],
                                      resolver.types, resolver.providedTypes)
       IN /\ Len(frame.resolved) < Len(texts)
          /\ resolver' =
               IF type.ok
               THEN [resolver EXCEPT !.stack[top].resolved = Append(frame.resolved, type.val)]
               ELSE IF "call" \notin DOMAIN type
               THEN Thrown(resolver, type.err)
               ELSE IF \E k \in 1..top : resolver.stack[k].unit = type.call
               THEN Thrown(resolver, [error |-> "RangeError"])
               ELSE [resolver EXCEPT !.stack = Append(resolver.stack, Frame(type.call))]
    /\ UNCHANGED <<schema, input, encoded, decoded, yielded, pc, iterators>>

\* resolveIecDataTypeUnit returns the data type of its unit, and its caller
\* (the loop of resolveIecTypes, or resolveIecVariable) stores it in the unit
ReturnResolved ==
    /\ resolver.phase = "resolving"
    /\ resolver.stack # <<>>
    /\ LET top == Len(resolver.stack)
           frame == resolver.stack[top]
           type == resolver.types[frame.unit]
           objects == IF type.type = "ALIAS" THEN resolver.objects
                      ELSE resolver.objects + 1
       IN /\ Len(frame.resolved) = Len(TextsOf(type))
          /\ resolver' =
               [resolver EXCEPT
                  !.types[frame.unit].resolved =
                      resolveIecDataTypeUnit(type, frame.resolved, objects),
                  !.objects = objects,
                  !.stack = SubSeq(resolver.stack, 1, top - 1),
                  !.i = IF top = 1 THEN resolver.i + 1 ELSE resolver.i]
    /\ UNCHANGED <<schema, input, encoded, decoded, yielded, pc, iterators>>

\* after the loop: the unit of the top-level name is looked up and its data
\* type returned
ReturnTopLevel ==
    /\ resolver.phase = "resolving"
    /\ resolver.stack = <<>>
    /\ resolver.i > Len(resolver.types)
    /\ LET returnVal == findName(NamesOf(resolver.types),
                                 resolver.topLevelDataType.s, 1)
       IN resolver' =
            IF returnVal = 0
            THEN Thrown(resolver, [error |-> "Top-level type was not found",
                                   topLevelDataType |-> resolver.topLevelDataType.s,
                                   types |-> NamesOf(resolver.types)])
            ELSE [resolver EXCEPT !.phase = "done",
                                  !.returned = Ok(resolver.types[returnVal].resolved)]
    /\ UNCHANGED <<schema, input, encoded, decoded, yielded, pc, iterators>>

\* the caller exchanges two neighbouring units of the text and resolves it
\* once more
ResolveReordered ==
    /\ resolver.phase = "done"
    /\ resolver.previous = NoResult
    /\ \E p \in 1..(Len(resolver.declarations) - 1) :
          resolver' = resolveIecTypes(Exchange(resolver.declarations, p),
                                      resolver.given, resolver.providedTypes,
                                      Earlier(resolver))
    /\ UNCHANGED <<schema, input, encoded, decoded, yielded, pc, iterators>>

InitResolver ==
    /\ schema = INT
    /\ input = Undefined
    /\ encoded = NotCalled
    /\ decoded = NotCalled
    /\ yielded = <<>>
    /\ pc = "new"
    /\ iterators = <<>>
    /\ resolver = [phase |-> "idle"]

NextResolver ==
    \/ ResolveIecTypes
    \/ NextType
    \/ ResolveVariable
    \/ ReturnResolved
    \/ ReturnTopLevel
    \/ ResolveReordered

SpecResolver == InitResolver /\ [][NextResolver]_vars

(***************************************************************************)
(* The caller of extractEnum: the text between the brackets of an          *)
(* enumeration with up to MaxMembers members, and the data type written    *)
(* after the closing bracket.                                              *)
(***************************************************************************)
\* what the caller writes for one member: its name, its value (undefined
\* when none is written, NaN for a value that is no number) and the text
Written(name, value, text) == [name |-> name, value |-> value, text |-> text]

WrittenMembers ==
    {Written(<<97>>, Undefined, <<97>>),                        \* a
     Written(<<98>>, Num(5), <<98, 32, 58, 61, 32, 53>>),       \* b := 5
     Written(<<99>>, Undefined, <<99>>),                        \* c
     Written(<<100>>, Num(0 - 3), <<100, 58, 61, 45, 51>>),     \* d:=-3
     Written(<<101>>, NaN, <<101, 32, 58, 61, 32, 120>>)}       \* e := x

\* the members of one enumeration: each written once
Enumerations ==
    {written \in UNION {[1..n -> WrittenMembers] : n \in 0..MaxMembers} :
        \A p, q \in DOMAIN written : p # q => written[p] # written[q]}

\* what stands between two members, and after the last one
Separators == {<<44, 32>>, <<44, 10, 32, 32>>}      \* comma and blank or new line
Endings == {<<>>, <<10>>}                           \* nothing or a new line

\* the text handed to extractEnum is what typeRegEx captures between the
\* brackets: it starts after the white space that follows the opening
\* bracket and runs up to the closing bracket
RECURSIVE EnumText(_, _, _, _)
EnumText(written, k, separator, ending) ==
    IF k > Len(written) THEN <<>>
    ELSE written[k].text
           \o (IF k < Len(written) THEN separator ELSE ending)
           \o EnumText(written, k + 1, separator, ending)

\* the extractor is handed the text of an enumeration
ExtractEnum ==
    /\ resolver.phase = "idle"
    /\ \E written \in Enumerations, separator \in Separators, ending \in Endings,
          dataType \in {Undefined, Str(<<>>), Str(typeName["UINT"])} :
          resolver' =
             [f \in DOMAIN extractEnum(<<>>, Undefined) \cup {"written", "given"} |->
                 IF f = "written" THEN written
                 ELSE IF f = "given" THEN dataType
                 ELSE extractEnum(EnumText(written, 1, separator, ending), dataType)[f]]
    /\ UNCHANGED <<schema, input, encoded, decoded, yielded, pc, iterators>>

\* while ((match = enumMatcher.exec(declaration)) !== null)
NextEnumMatch ==
    /\ resolver.phase = "extracting"
    /\ resolver' = extractEnumLoop(resolver)
    /\ UNCHANGED <<schema, input, encoded, decoded, yielded, pc, iterators>>

NextExtractor ==
    \/ ExtractEnum
    \/ NextEnumMatch

SpecExtractor == InitResolver /\ [][NextExtractor]_vars

(***************************************************************************)
(* Properties.                                                             *)
(***************************************************************************)
RECURSIVE SumOf(_)
SumOf(sizes) == IF Len(sizes) = 0 THEN 0 ELSE sizes[1] + SumOf(Tail(sizes))

RECURSIVE ProductOf(_)
ProductOf(sizes) == IF Len(sizes) = 0 THEN 1 ELSE sizes[1] * ProductOf(Tail(sizes))

MaxOf(sizes) ==
    IF Len(sizes) = 0 THEN 0
    ELSE CHOOSE m \in {sizes[i] : i \in 1..Len(sizes)} :
            \A i \in 1..Len(sizes) : sizes[i] <= m

ChildSizes(dt) == [k \in 1..Len(dt.children) |-> dt.children[k].dt.byteLength]

\* the fixed sizes of the primitive kinds
FixedSize(type) ==
    CASE type \in {"BOOL", "USINT", "BYTE", "SINT"} -> 1
      [] type \in {"UINT", "WORD", "INT"} -> 2
      [] type \in {"DINT", "UDINT", "DWORD", "TIME", "TOD", "TIME_OF_DAY", "DT",
                   "DATE_AND_TIME", "DATE", "REAL"} -> 4
      [] type \in {"LREAL", "ULINT", "LWORD", "LINT"} -> 8

RECURSIVE ByteLengthRule(_)
ByteLengthRule(dt) ==
    CASE dt.type = "STRUCT" ->
            /\ dt.byteLength = SumOf(ChildSizes(dt))
            /\ \A k \in 1..Len(dt.children) : ByteLengthRule(dt.children[k].dt)
      [] dt.type = "UNION" ->
            /\ dt.byteLength = MaxOf(ChildSizes(dt))
            /\ \A k \in 1..Len(dt.children) : ByteLengthRule(dt.children[k].dt)
      [] dt.type = "ARRAY" ->
            /\ dt.byteLength = ProductOf(dt.dimensions) * dt.dataType.byteLength
            /\ ByteLengthRule(dt.dataType)
      [] dt.type = "ENUM" ->
            /\ dt.byteLength = dt.dataType.byteLength
            /\ ByteLengthRule(dt.dataType)
      [] dt.type = "STRING" -> \E L \in 0..(MaxStrLen + 1) : dt.byteLength = L + 1
      [] dt.type = "WSTRING" -> \E L \in 0..(MaxStrLen + 1) : dt.byteLength = 2 * L + 2
      [] OTHER -> dt.byteLength = FixedSize(dt.type)

IsNumberIn(v, lo, hi) == v.t = "number" /\ v.n >= lo /\ v.n <= hi

\* the number is one that binary32 holds exactly
IsSingle(n) ==
    \/ Abs(n) < 16777216
    \/ n % Pow2(FloorLog2(Abs(n)) - 23) = 0

\* the value is a nested array of the given dimensions (from dimension d on)
\* whose elements all satisfy InRange for the element type
RECURSIVE InRange(_, _)
RECURSIVE InRangeRows(_, _, _)
InRangeRows(dt, v, d) ==
    /\ v.t = "array"
    /\ Len(v.items) = dt.dimensions[d]
    /\ \A i \in 1..Len(v.items) :
        IF d = Len(dt.dimensions) THEN InRange(dt.dataType, v.items[i])
        ELSE InRangeRows(dt, v.items[i], d + 1)

\* the value tree is one the round trip property speaks of: every field is
\* present and holds a value that the kind represents (an integer within the
\* limits of the kind, a number that the float width holds exactly, a text
\* without NUL, no longer than the declared length, made of characters of the
\* encoding)
InRange(dt, v) ==
    LET class == BaseClass(dt.type)
    IN CASE class = "BOOL" -> v.t = "boolean"
         [] class = "USINT" -> IsNumberIn(v, 0, 255)
         [] class = "SINT" -> IsNumberIn(v, -128, 127)
         [] class = "UINT" -> IsNumberIn(v, 0, 65535)
         [] class = "INT" -> IsNumberIn(v, -32768, 32767)
         [] class = "DINT" -> IsNumberIn(v, -2147483647 - 1, 2147483647)
         [] class = "UDINT" -> IsNumberIn(v, 0, 2147483647)
         [] class = "REAL" -> v.t = "number" /\ IsSingle(v.n)
         [] class = "LREAL" -> v.t = "number"
         [] class = "ULINT" -> v.t = "bigint" /\ v.big >= 0
         [] class = "LINT" -> v.t = "bigint"
         [] class = "STRING" ->
                /\ v.t = "string"
                /\ Len(v.s) <= dt.byteLength - 1
                /\ \A i \in 1..Len(v.s) :
                    v.s[i] # 0 /\ Cp1252Char(Cp1252Byte(v.s[i])) = v.s[i]
         [] class = "WSTRING" ->
                /\ v.t = "string"
                /\ 2 * Len(v.s) <= dt.byteLength - 2
                /\ \A i \in 1..Len(v.s) : v.s[i] # 0
                /\ (Len(v.s) > 0 => v.s[1] # 65279)
         [] class = "STRUCT" ->
                /\ v.t = "object"
                /\ Len(v.props) = Len(dt.children)
                /\ \A k \in 1..Len(dt.children) :
                    /\ v.props[k].k = dt.children[k].name
                    /\ InRange(dt.children[k].dt, v.props[k].v)
         [] class = "ARRAY" -> InRangeRows(dt, v, 1)
         [] OTHER -> FALSE

\* the paths of the leaves in which two value trees differ
RECURSIVE DiffLeaves(_, _, _)
DiffLeaves(a, b, path) ==
    IF a.t = "object" /\ b.t = "object" /\ Len(a.props) = Len(b.props)
    THEN UNION {DiffLeaves(a.props[k].v, b.props[k].v,
                           Append(path, [key |-> a.props[k].k, index |-> -1])) :
                    k \in 1..Len(a.props)}
    ELSE IF a.t = "array" /\ b.t = "array" /\ Len(a.items) = Len(b.items)
    THEN UNION {DiffLeaves(a.items[i], b.items[i],
                           Append(path, [key |-> "", index |-> i - 1])) :
                    i \in 1..Len(a.items)}
    ELSE IF a = b THEN {} ELSE {path}

\* the path leads through an array
IsArrayElement(path) == \E i \in 1..Len(path) : path[i].index >= 0

HoldsNumber(dt, n) ==
    LET class == BaseClass(dt.type)
    IN CASE class = "USINT" -> n >= 0 /\ n <= 255
         [] class = "SINT" -> n >= -128 /\ n <= 127
         [] class = "UINT" -> n >= 0 /\ n <= 65535
         [] class = "INT" -> n >= -32768 /\ n <= 32767
         [] class \in {"UDINT", "ULINT"} -> n >= 0
         [] OTHER -> TRUE

\* the numbers an ENUM input denotes: the number of the declared name it
\* spells (in any letter case), the raw number itself, the value of a
\* {name, value} pair; none for any other input
EnumDenotes(dt, v) ==
    CASE v.t = "string" ->
            {dt.definition[i].value : i \in {j \in 1..Len(dt.definition) :
                toLowerCase(dt.definition[j].name) = toLowerCase(v.s)}}
      [] v.t = "number" -> {n \in {v.n} : HoldsNumber(dt.dataType, n)}
      [] v.t = "object" ->
            IF /\ Len(v.props) = 2
               /\ Get(v, "name").t = "string"
               /\ Get(v, "value").t = "number"
            THEN {n \in {Get(v, "value").n} : HoldsNumber(dt.dataType, n)}
            ELSE {}
      [] OTHER -> {}

\* the number a decoded value holds
NumberOf(v) == CASE v.t = "number" -> {v.n} [] v.t = "bigint" -> {v.big} [] OTHER -> {}

\* the name ENUM decoding gives to a number: that of the first declared entry
\* with that number, undefined when there is none
NameOf(dt, n) ==
    IF \E i \in 1..Len(dt.definition) : dt.definition[i].value = n
    THEN Str(dt.definition[CHOOSE i \in 1..Len(dt.definition) :
                /\ dt.definition[i].value = n
                /\ \A j \in 1..(i - 1) : dt.definition[j].value # n].name)
    ELSE Undefined

\* C3 (as stated): for an ENUM, every accepted input (a declared name in any
\* letter case, a raw number in range, 0 included, a {name, value} pair) is
\* encoded so that decoding returns the entry whose value is the denoted
\* number, with the name recomputed from the definition.
C3_EnumRoundTrip ==
    (pc = "decoded" /\ schema.type = "ENUM") =>
        \A n \in EnumDenotes(schema, input) :
            /\ decoded.ok
            /\ NumberOf(Get(decoded.val, "value")) = {n}
            /\ Get(decoded.val, "name") = NameOf(schema, n)

\* C4 (as stated): for every kind, convertToBuffer(getDefault()) succeeds and
\* the result decodes to a value equal to getDefault().
C4_DefaultFixedPoint ==
    /\ pc = "defaultEncoded" => encoded.ok /\ Len(encoded.val) = schema.byteLength
    /\ pc = "defaultDecoded" => decoded = Ok(input)

\* no value: undefined or null
IsAbsent(v) == v.t \in {"undefined", "null"}

\* C5 (as stated): a convertToBuffer call that is given a value (0, false and
\* '' included) returns exactly byteLength bytes; it returns a zero-length
\* buffer only when the value tree is absent.
C5_FullLength ==
    (pc \in {"encoded", "defaultEncoded"} /\ encoded.ok /\ ~IsAbsent(input)) =>
        Len(encoded.val) = schema.byteLength

\* the sum of the byteLength of the children declared before the k-th
OffsetOf(children, k) ==
    SumOf([i \in 1..(k - 1) |-> children[i].dt.byteLength])

\* C6 (as stated): STRUCT convertToBuffer writes the encoding of the k-th
\* declared child at the offset equal to the sum of the byteLength of the
\* children declared before it (where convertFromBuffer reads that child),
\* also when the map gives no value for an earlier child or an earlier
\* child's encoding is shorter than its byteLength.
C6_StructOffsets ==
    (pc = "encoded" /\ schema.type = "STRUCT" /\ input.t = "object" /\ encoded.ok) =>
        \A k \in 1..Len(schema.children) :
            LET child == schema.children[k]
                written == convertToBuffer(child.dt, Get(input, child.name))
                offset == OffsetOf(schema.children, k)
            IN written.ok =>
                BufferSlice(encoded.val, offset, offset + Len(written.val)) = written.val

\* the STRUCT with the declarations of its two members exchanged
Exchanged(dt) == STRUCT(<<dt.children[2], dt.children[1]>>)

\* the two regions of a buffer, of sizes first and second, exchanged
ExchangedRegions(buf, first, second) ==
    BufferSlice(buf, first, first + second) \o BufferSlice(buf, 0, first)

\* the names an iteration yields, in order
YieldedNames(items) == [i \in 1..Len(items) |-> items[i].name]

\* C7 (as stated): the children of a STRUCT are encoded, decoded, defaulted
\* and iterated in declaration order: exchanging the declarations of two
\* members leaves the byteLength unchanged, exchanges their positions in the
\* default and decoded maps and in field iteration, and moves their regions
\* of the buffer to the cumulative offsets of the new order, in decoding and
\* in encoding.
C7_DeclarationOrder ==
    schema.type = "STRUCT" =>
        LET first == schema.children[1].dt.byteLength
            second == schema.children[2].dt.byteLength
        IN /\ Exchanged(schema).byteLength = schema.byteLength
           /\ pc = "default" =>
                getDefault(Exchanged(schema)) = Obj(<<input.props[2], input.props[1]>>)
           /\ (pc \in {"decoded", "defaultDecoded"} /\ decoded.ok
                    /\ Len(encoded.val) = schema.byteLength) =>
                convertFromBuffer(Exchanged(schema),
                                  ExchangedRegions(encoded.val, first, second))
                    = Ok(Obj(<<decoded.val.props[2], decoded.val.props[1]>>))
           /\ pc = "iterated" =>
                LET count == Len(iterate(schema.children[1].dt, 0).items)
                IN YieldedNames(variableIterator(Exchanged(schema)))
                    = SubSeq(YieldedNames(yielded), count + 1, Len(yielded))
                        \o SubSeq(YieldedNames(yielded), 1, count)
           /\ (pc = "encoded" /\ input.t = "object" /\ encoded.ok) =>
                convertToBuffer(Exchanged(schema), input)
                    = Ok(ExchangedRegions(encoded.val, first, second))

\* what iconv.encode gives for the text of a string type
EncodedText(dt, text) ==
    IF dt.type = "STRING" THEN EncodeCp1252(Str(text)) ELSE EncodeUcs2(Str(text))

\* C8: for a STRING(L) or WSTRING(L), convertToBuffer of any text raises no
\* error and returns exactly byteLength bytes (L+1, respectively 2*L+2): the
\* encoded text cut to that size, every byte the text does not cover being 0.
C8_StringEncode ==
    (pc = "encoded" /\ schema.type \in {"STRING", "WSTRING"} /\ input.t = "string") =>
        /\ encoded.ok
        /\ Len(encoded.val) = schema.byteLength
        /\ \A i \in 1..Len(encoded.val) :
            encoded.val[i] = IF i <= Len(EncodedText(schema, input.s))
                             THEN EncodedText(schema, input.s)[i]
                             ELSE 0

\* a text whose encoding is longer than the buffer has been converted
C8_Witness ==
    /\ pc = "encoded"
    /\ schema.type \in {"STRING", "WSTRING"}
    /\ input.t = "string"
    /\ Len(EncodedText(schema, input.s)) > schema.byteLength
    /\ encoded.ok
    /\ encoded.val[Len(encoded.val)] # 0

\* the bytes before the first unit (of `unit` bytes, aligned) that is all zero
BeforeZero(buf, unit) ==
    LET units == Len(buf) \div unit
        IsZero(i) == \A j \in 1..unit : buf[(i - 1) * unit + j] = 0
    IN IF \E i \in 1..units : IsZero(i)
       THEN SubSeq(buf, 1, unit * ((CHOOSE i \in 1..units :
                        IsZero(i) /\ \A j \in 1..(i - 1) : ~IsZero(j)) - 1))
       ELSE SubSeq(buf, 1, unit * units)

IsStringDecoded ==
    /\ pc \in {"decoded", "defaultDecoded", "receivedDecoded"}
    /\ schema.type \in {"STRING", "WSTRING"}
    /\ Len(encoded.val) = schema.byteLength

RawValue(buf) ==
    {n \in RawNumbers : LEBytes(n, Len(buf)) = buf}

\* C10 (as stated): ENUM convertFromBuffer never raises for a buffer of its
\* byteLength bytes: it returns the first entry in declaration order whose
\* value equals the number read, and {name: undefined, value: rawValue} when
\* no entry has that value.
C10_EnumDecode ==
    (pc = "receivedDecoded" /\ schema.type = "ENUM") =>
        /\ decoded.ok
        /\ \A n \in RawValue(encoded.val) :
            /\ NumberOf(Get(decoded.val, "value")) = {n}
            /\ Get(decoded.val, "name") = NameOf(schema, n)

\* the declared numbers whose name the text spells, in any letter case
DeclaredAs(dt, name) ==
    {dt.definition[i].value : i \in {j \in 1..Len(dt.definition) :
        toLowerCase(dt.definition[j].name) = toLowerCase(name)}}

\* C11 (as stated): ENUM convertToBuffer encodes the value of the declared
\* entry that a symbolic name matches in any letter case; a symbolic name
\* (a string, or the name of a pair object) that matches no declared entry
\* raises an error; a bare number or a pair object carrying a value encodes
\* that number, declared or not; any other input raises an error.
C11_EnumEncode ==
    (pc = "encoded" /\ schema.type = "ENUM" /\ ~IsAbsent(input)) =>
        LET name == Get(input, "name")
            value == Get(input, "value")
            Encodes(n) == encoded = Ok(LEBytes(n, schema.byteLength))
        IN CASE input.t = "string" ->
                    /\ \A n \in DeclaredAs(schema, input.s) : Encodes(n)
                    /\ DeclaredAs(schema, input.s) = {} => ~encoded.ok
             [] input.t = "number" -> Encodes(input.n)
             [] input.t = "object" /\ value.t = "number" -> Encodes(value.n)
             [] input.t = "object" /\ value.t # "number" /\ name.t = "string" ->
                    /\ \A n \in DeclaredAs(schema, name.s) : Encodes(n)
                    /\ DeclaredAs(schema, name.s) = {} => ~encoded.ok
             [] OTHER -> ~encoded.ok

\* C12: ENUM getDefault returns the first declared entry as a {name, value}
\* pair, whatever its value; with no declared entries it returns the default
\* of the backing primitive (0) in the same shape with name undefined.  An
\* ENUM built without a backing type uses INT: 2 bytes, signed.
C12_EnumDefault ==
    /\ (pc = "default" /\ schema.type = "ENUM") =>
            input = IF Len(schema.definition) > 0
                    THEN Obj(<<Prop("name", Str(schema.definition[1].name)),
                               Prop("value", Num(schema.definition[1].value))>>)
                    ELSE Obj(<<Prop("name", Undefined), Prop("value", Num(0))>>)
    /\ \A definition \in {E_Mode, E_Run, <<>>} :
            /\ ENUM(definition, Undefined).dataType.type = "INT"
            /\ ENUM(definition, Undefined).byteLength = 2
            /\ convertToBuffer(ENUM(definition, Undefined), Num(-1)) = Ok(<<255, 255>>)
            /\ Get(convertFromBuffer(ENUM(definition, Undefined), <<255, 255>>).val,
                   "value") = Num(-1)

\* the default of an ENUM whose first entry is not 0, built without a backing
\* type
C12_Witness ==
    /\ pc = "default"
    /\ schema.type = "ENUM"
    /\ schema.byteLength = 2
    /\ Len(schema.definition) > 0
    /\ schema.definition[1].value # 0
    /\ Get(input, "value") = Num(schema.definition[1].value)

RECURSIVE Reverse(_)
Reverse(xs) == IF Len(xs) = 0 THEN <<>> ELSE Append(Reverse(Tail(xs)), xs[1])

\* the positions of the declared children for which the map defines a value
DefinedMembers(dt, data) ==
    {k \in 1..Len(dt.children) : Get(data, dt.children[k].name) # Undefined}

\* the member's own codec, used alone, gives the value back unchanged
RoundTripsAlone(dt, v) ==
    /\ convertToBuffer(dt, v).ok
    /\ convertFromBuffer(dt, convertToBuffer(dt, v).val) = Ok(v)

IsDecoded == pc \in {"decoded", "defaultDecoded", "receivedDecoded"}

\* C14: UNION convertFromBuffer returns a map with one entry per declared
\* child, in declaration order; each entry is what the child's own codec
\* decodes from the first child.byteLength bytes of the region, whatever the
\* other children are.
C14_UnionDecode ==
    (IsDecoded /\ schema.type = "UNION") =>
        LET Alone(k) == convertFromBuffer(schema.children[k].dt,
                            SubSeq(encoded.val, 1,
                                   Min(schema.children[k].dt.byteLength, Len(encoded.val))))
        IN /\ decoded.ok <=> \A k \in 1..Len(schema.children) : Alone(k).ok
           /\ decoded.ok =>
                /\ decoded.val.t = "object"
                /\ Len(decoded.val.props) = Len(schema.children)
                /\ \A k \in 1..Len(schema.children) :
                    /\ decoded.val.props[k].k = schema.children[k].name
                    /\ decoded.val.props[k].v = Alone(k).val

\* a region with a first byte other than 0 decoded by a UNION of two children
\* of different sizes
C14_Witness ==
    /\ IsDecoded
    /\ schema.type = "UNION"
    /\ decoded.ok
    /\ schema.children[1].dt.byteLength # schema.children[2].dt.byteLength
    /\ Len(encoded.val) = schema.byteLength
    /\ encoded.val[1] # 0
    /\ encoded.val[2] # 0

\* the value is a nest of sequences of the sizes dimensions[d], dimensions[d+1], ...
RECURSIVE HasShape(_, _, _)
HasShape(v, dimensions, d) ==
    /\ v.t = "array"
    /\ Len(v.items) = dimensions[d]
    /\ d < Len(dimensions) => \A i \in 1..Len(v.items) : HasShape(v.items[i], dimensions, d + 1)

\* the elements of a nest of sequences of the given depth, the last index
\* varying fastest
RECURSIVE RowMajor(_, _)
RowMajor(v, depth) ==
    IF depth = 0 THEN <<v>>
    ELSE LET RECURSIVE Rows(_)
             Rows(i) == IF i > Len(v.items) THEN <<>>
                        ELSE RowMajor(v.items[i], depth - 1) \o Rows(i + 1)
         IN Rows(1)

\* C15 (as stated): an ARRAY with dimensions d1..dn and element size e
\* handles its data as sequences nested outermost to innermost; the element
\* of row-major rank r occupies the bytes [r*e, (r+1)*e) in convertToBuffer
\* and in convertFromBuffer; getDefault returns a nest of exactly d1 x ... x dn
\* defaults of the element type.
C15_RowMajor ==
    schema.type = "ARRAY" =>
        LET e == schema.dataType.byteLength
            n == Len(schema.dimensions)
            count == ProductOf(schema.dimensions)
        IN /\ pc = "default" =>
                /\ HasShape(input, schema.dimensions, 1)
                /\ RowMajor(input, n) = [r \in 1..count |-> getDefault(schema.dataType)]
           /\ (IsDecoded /\ decoded.ok /\ Len(encoded.val) = schema.byteLength) =>
                /\ HasShape(decoded.val, schema.dimensions, 1)
                /\ \A r \in 0..(count - 1) :
                    Ok(RowMajor(decoded.val, n)[r + 1])
                        = convertFromBuffer(schema.dataType,
                                            BufferSlice(encoded.val, r * e, (r + 1) * e))
           /\ (pc = "encoded" /\ encoded.ok /\ HasShape(input, schema.dimensions, 1)) =>
                /\ Len(encoded.val) = schema.byteLength
                /\ \A r \in 0..(count - 1) :
                    LET written == convertToBuffer(schema.dataType, RowMajor(input, n)[r + 1])
                    IN written.ok =>
                        BufferSlice(encoded.val, r * e, r * e + Len(written.val)) = written.val

\* the leaf fields of a data type in declared order, each with the offset at
\* which convertFromBuffer of the root reads it when the data type itself is
\* read at `base`: the children of a STRUCT follow each other, those of a
\* UNION all start where the UNION starts, an ARRAY is one field
RECURSIVE FieldsAt(_, _, _)
FieldsAt(dt, name, base) ==
    IF ~HasChildren(dt) THEN <<IteratedIecType(name, base, dt)>>
    ELSE LET RECURSIVE From(_)
             From(k) ==
                IF k > Len(dt.children) THEN <<>>
                ELSE FieldsAt(dt.children[k].dt, Str(dt.children[k].name),
                              base + (IF dt.type = "STRUCT"
                                      THEN OffsetOf(dt.children, k) ELSE 0))
                        \o From(k + 1)
         IN From(1)

\* C16 (as stated): field iteration yields every leaf field of the schema
\* once, in declared order, recursing into nested STRUCT and UNION children
\* and yielding an ARRAY field as one entry; the startIndex of each entry is
\* the offset from the root at which the root's convertFromBuffer reads the
\* field.
C16_FieldIteration ==
    pc = "iterated" => yielded = FieldsAt(schema, Undefined, 0)

\* the multi-index (one index per dimension, from 0) of the element of
\* row-major rank r
RECURSIVE MultiIndex(_, _)
MultiIndex(r, dimensions) ==
    IF Len(dimensions) = 0 THEN <<>>
    ELSE LET inner == ProductOf(Tail(dimensions))
         IN <<r \div inner>> \o MultiIndex(r % inner, Tail(dimensions))

\* the name followed by one index suffix for each index of the list
RECURSIVE Suffixed(_, _)
Suffixed(name, indexes) ==
    IF Len(indexes) = 0 THEN name
    ELSE Suffixed(TemplateName(name, indexes[1]), Tail(indexes))

\* the entries that stand for an ARRAY field: one per element in memory
\* order, an element that is an ARRAY being expanded in turn
RECURSIVE ElementsOf(_, _, _)
ElementsOf(dt, name, startIndex) ==
    LET e == dt.dataType.byteLength
        RECURSIVE From(_)
        From(r) ==
            IF r >= ProductOf(dt.dimensions) THEN <<>>
            ELSE (IF dt.dataType.type = "ARRAY"
                  THEN ElementsOf(dt.dataType,
                                  Suffixed(name, MultiIndex(r, dt.dimensions)),
                                  startIndex + r * e)
                  ELSE <<IteratedIecType(Suffixed(name, MultiIndex(r, dt.dimensions)),
                                         startIndex + r * e, dt.dataType)>>)
                 \o From(r + 1)
    IN From(0)

RECURSIVE Expanded(_)
Expanded(fields) ==
    IF Len(fields) = 0 THEN <<>>
    ELSE (IF fields[1].type.type = "ARRAY"
          THEN ElementsOf(fields[1].type, fields[1].name, fields[1].startIndex)
          ELSE <<fields[1]>>)
         \o Expanded(Tail(fields))

\* C17 (as stated): element iteration yields the entries of field iteration,
\* every ARRAY field with dimensions d1..dn being replaced by d1 x ... x dn
\* entries, one per element in memory order, each at the field's offset plus
\* its row-major rank times the element size and named with the field name
\* followed by one index suffix per dimension; an element that is itself an
\* ARRAY is expanded down to its innermost elements.
C17_ElementIteration ==
    pc = "elements" => yielded = Expanded(variableIterator(schema))


\* what one traversal of the data type yields when nothing else is going on
TraversalOf(method) ==
    IF method = "elementIterator" THEN elementIterator(schema)
    ELSE variableIterator(schema)

\* the traversal g has yielded the first entries of that sequence, from offset
\* 0 on, never more than all of them, and all of them when it reports its end
IsFresh(g) ==
    LET all == TraversalOf(g.method)
    IN /\ Len(g.out) <= Len(all)
       /\ g.out = SubSeq(all, 1, Len(g.out))
       /\ (g.out # <<>> => g.out[1].startIndex = 0)
       /\ (g.done => g.out = all)

RECURSIVE UnitOf(_, _)
UnitOf(dataType, types) ==
    IF resolveIecVariable(dataType, <<>>, Undefined).ok THEN 0
    ELSE IF arrayRegEx(dataType, 1) # Null
    THEN UnitOf(arrayRegEx(dataType, 1).dataType, types)
    ELSE findName(NamesOf(types), dataType, 1)

\* the data type found where the text stands in a resolved data type: below
\* the arrays the text declares
RECURSIVE PlaceOf(_, _)
PlaceOf(dataType, dt) ==
    IF dt.type = "ARRAY" /\ arrayRegEx(dataType, 1) # Null
    THEN PlaceOf(arrayRegEx(dataType, 1).dataType, dt.dataType)
    ELSE dt

\* the data types the resolved unit holds for its texts, in their order
HeldBy(type) ==
    CASE type.type \in {"STRUCT", "UNION"} ->
           [k \in 1..Len(type.content) |-> type.resolved.children[k].dt]
      [] type.type = "ENUM" -> <<type.resolved.dataType>>
      [] type.type = "ALIAS" -> <<type.resolved>>

\* the units each unit of the text refers to
RefersTo(types) ==
    [j \in 1..Len(types) |->
        {UnitOf(TextsOf(types[j])[k], types) : k \in 1..Len(TextsOf(types[j]))} \ {0}]

RECURSIVE ReachedFrom(_, _, _)
ReachedFrom(refers, units, n) ==
    IF n = 0 THEN units
    ELSE ReachedFrom(refers, units \cup UNION {refers[j] : j \in units}, n - 1)

\* no unit of the text refers to itself, directly or through other units
Acyclic(types) ==
    LET refers == RefersTo(types)
    IN \A j \in 1..Len(types) : j \notin ReachedFrom(refers, refers[j], Len(types))

Resolved(types) == {j \in 1..Len(types) : types[j].resolved # Undefined}

\* every resolved unit holds, for each of its texts that names a unit, the
\* very object stored in that unit
SameObjects(types) ==
    \A j \in Resolved(types) :
       \A k \in 1..Len(TextsOf(types[j])) :
          LET unit == UnitOf(TextsOf(types[j])[k], types)
          IN unit # 0 =>
               /\ unit \in Resolved(types)
               /\ PlaceOf(TextsOf(types[j])[k], HeldBy(types[j])[k]) = types[unit].resolved

\* as many objects were built as units other than aliases are resolved
BuiltOnce(call) ==
    call.objects = Cardinality({j \in Resolved(call.types) : call.types[j].type # "ALIAS"})

RECURSIVE Structure(_)
Structure(dt) ==
    [f \in DOMAIN dt \ {"object"} |->
        IF f = "children"
        THEN [k \in 1..Len(dt.children) |->
                 Child(dt.children[k].name, Structure(dt.children[k].dt))]
        ELSE IF f = "dataType" THEN Structure(dt.dataType)
        ELSE dt[f]]

\* no two units of the text carry the same name (names are told apart
\* without regard to letter case, as everywhere in the resolver)
DistinctNames(types) ==
    \A p, q \in 1..Len(types) :
       p # q => toLowerCase(types[p].name) # toLowerCase(types[q].name)

\* the call under way is the second one, on the text of the first with two
\* neighbouring units exchanged
Reordered == resolver.phase # "idle" /\ resolver.previous # NoResult

\* C20: for a text whose units have pairwise distinct names and no cyclic
\* references, and any top-level name, resolveIecTypes returns the same data
\* type up to the identity of the objects (kinds, names and order of the
\* children, dimensions, enumerations, byteLength) in whatever order the text
\* lists the units (every order is reached from every other one by
\* exchanging two neighbouring units at a time); it returns a data type for one order
\* exactly when it does for the other, so a unit may refer to a unit declared
\* after it.
C20_OrderIndependent ==
    (/\ Reordered
     /\ resolver.phase = "done"
     /\ DistinctNames(resolver.types)
     /\ Acyclic(resolver.types))
    => /\ resolver.returned.ok = resolver.previous.returned.ok
       /\ (resolver.returned.ok =>
             Structure(resolver.returned.val)
                = Structure(resolver.previous.returned.val))

\* C20 (witness): the struct was resolved once with the enum it refers to
\* declared after it, and once more with the enum declared before it, and
\* both calls have returned it
C20_Witness ==
    /\ Reordered
    /\ resolver.phase = "done"
    /\ DistinctNames(resolver.types)
    /\ Len(resolver.types) = 3
    /\ resolver.previous.returned.ok
    /\ resolver.returned.ok
    /\ resolver.returned.val.type = "STRUCT"
    /\ resolver.previous.declarations[2].type = "STRUCT"
    /\ resolver.previous.declarations[3].type = "ENUM"
    /\ resolver.types[3].type = "STRUCT"

\* the least number of a set of numbers
Least(S) == CHOOSE x \in S : \A y \in S : x <= y

\* the units of the text and the provided types that carry the name of the
\* text, in any letter case
UnitsNamed(dataType, types) ==
    {j \in 1..Len(types) : toLowerCase(types[j].name) = toLowerCase(dataType)}

ProvidedNamed(dataType, providedTypes) ==
    IF providedTypes = Undefined THEN {}
    ELSE {k \in 1..Len(providedTypes) :
             toLowerCase(providedTypes[k].k) = toLowerCase(dataType)}

\* the names of the non-complex types in lower case
LowerNames == [n \in DOMAIN typeName |-> toLowerCase(typeName[n])]

PrimitivesNamed(dataType) ==
    LET lower == toLowerCase(dataType)
    IN {t \in NonComplexTypes : LowerNames[t.type] = lower}

\* the data type dt is what the first rule that matches the text gives:
\* the primitive of that name, a string, an array of what the element text
\* gives, the object stored in the first unit of that name, the provided
\* object of that name
RECURSIVE FirstRule(_, _, _, _)
FirstRule(dataType, dt, types, providedTypes) ==
    LET primitives == PrimitivesNamed(dataType)
        arrayMatch == arrayRegEx(dataType, 1)
        units == UnitsNamed(dataType, types)
        provided == ProvidedNamed(dataType, providedTypes)
    IN IF primitives # {} THEN dt \in primitives
       ELSE IF stringRegEx(dataType) # Null THEN dt.type \in {"STRING", "WSTRING"}
       ELSE IF arrayMatch # Null
       THEN /\ dt.type = "ARRAY"
            /\ FirstRule(arrayMatch.dataType, dt.dataType, types, providedTypes)
       ELSE IF units # {} THEN dt = types[Least(units)].resolved
       ELSE /\ provided # {}
            /\ dt = providedTypes[Least(provided)].v

\* C21: a type text is resolved by the first rule that matches, in the order
\* primitive name, STRING/WSTRING syntax, ARRAY syntax, unit of the text,
\* provided type, names compared without regard to letter case: every
\* resolved unit holds for each of its texts what that rule gives, so a
\* provided type is taken only for a name that is no primitive, no string or
\* array syntax and no unit, a unit goes before a provided type of its name,
\* and the primitive goes before a unit or provided type of its name.
C21_RuleOrder ==
    resolver.phase # "idle" =>
       \A j \in Resolved(resolver.types) :
          \A k \in 1..Len(TextsOf(resolver.types[j])) :
             FirstRule(TextsOf(resolver.types[j])[k], HeldBy(resolver.types[j])[k],
                       resolver.types, resolver.providedTypes)

\* C21 (witness): with a struct provided under the name c and BOOL under the
\* name UINT, a call has returned after resolving the alias of c to the
\* provided struct in a text that declares no unit c, the alias of uint to
\* the primitive although the text declares a unit UINT, and that unit
C21_Witness ==
    /\ resolver.phase = "done"
    /\ resolver.returned.ok
    /\ resolver.providedTypes # Undefined
    /\ \E j, k, u \in 1..Len(resolver.types) :
          /\ resolver.types[j].type = "ALIAS"
          /\ resolver.types[j].content = ExtractedAlias(<<99>>)
          /\ resolver.types[j].resolved = resolver.providedTypes[1].v
          /\ resolver.types[k].type = "ALIAS"
          /\ resolver.types[k].content = ExtractedAlias(<<117, 105, 110, 116>>)
          /\ resolver.types[k].resolved = UINT
          /\ resolver.types[u].name = <<85, 73, 78, 84>>
          /\ resolver.types[u].resolved = resolver.providedTypes[1].v

\* C21 (witness of the other order): the same provided types, and a text
\* that declares the unit C: the alias of c holds the object of the unit
C21_WitnessUnit ==
    /\ resolver.phase = "done"
    /\ resolver.returned.ok
    /\ resolver.providedTypes # Undefined
    /\ \E j, u \in 1..Len(resolver.types) :
          /\ resolver.types[j].type = "ALIAS"
          /\ resolver.types[j].content = ExtractedAlias(<<99>>)
          /\ resolver.types[u].name = <<67>>
          /\ resolver.types[j].resolved = resolver.types[u].resolved
          /\ resolver.types[j].resolved # resolver.providedTypes[1].v

\* the errors resolveIecTypes raises about the top-level name
Ambiguous == Throw([error |-> "Top level data type name is not given"])

NotFound(call) ==
    Throw([error |-> "Top-level type was not found",
           topLevelDataType |-> call.topLevelDataType.s,
           types |-> NamesOf(call.types)])

\* what a call that has ended returns for the unit at place j of its text:
\* the object stored in the unit once every unit is resolved, and an error
\* when the resolution of a unit has failed
ReturnsUnit(call, j) ==
    IF Resolved(call.types) = 1..Len(call.types)
    THEN call.returned = Ok(call.types[j].resolved)
    ELSE ~call.returned.ok

\* C22: the top-level selection of resolveIecTypes.  With a top-level name
\* the call returns the data type of the (first) unit that carries the name
\* in any letter case, and raises an error when no unit carries it (the
\* not-found error once every unit is resolved); without a name and with
\* one unit it returns the data type of that unit; without a name and with
\* more than one unit it raises the ambiguity error and resolves nothing.
\* Where a data type is to be returned, the call raises an error instead
\* when the resolution of a unit of the text fails.
C22_TopLevel ==
    resolver.phase = "done" =>
       LET types == resolver.types
           named == IF Truthy(resolver.given)
                    THEN UnitsNamed(resolver.given.s, types) ELSE {}
       IN CASE Truthy(resolver.given) /\ named # {} ->
                 ReturnsUnit(resolver, Least(named))
            [] Truthy(resolver.given) /\ named = {} ->
                 /\ ~resolver.returned.ok
                 /\ (Resolved(types) = 1..Len(types) =>
                       resolver.returned = NotFound(resolver))
            [] ~Truthy(resolver.given) /\ Len(types) = 1 ->
                 ReturnsUnit(resolver, 1)
            [] ~Truthy(resolver.given) /\ Len(types) > 1 ->
                 /\ resolver.returned = Ambiguous
                 /\ Resolved(types) = {}
            [] OTHER -> TRUE

\* C22 (witness): called with the name uint for a text of three units
\* whose first unit is declared as UINT, the call has returned the data type
\* stored in that unit
C22_Witness ==
    /\ resolver.phase = "done"
    /\ Truthy(resolver.given)
    /\ resolver.given.s = <<117, 105, 110, 116>>
    /\ Len(resolver.types) = 3
    /\ UnitsNamed(resolver.given.s, resolver.types) = {1}
    /\ resolver.types[1].name # resolver.given.s
    /\ resolver.returned = Ok(resolver.types[1].resolved)
    /\ resolver.returned.val.type = "STRUCT"

\* the text that matches no rule: the text itself or, for an array syntax,
\* the text of its element type ({} when every text matches a rule)
RECURSIVE Unmatched(_, _, _)
Unmatched(dataType, types, providedTypes) ==
    LET arrayMatch == arrayRegEx(dataType, 1)
    IN IF PrimitivesNamed(dataType) # {} \/ stringRegEx(dataType) # Null THEN {}
       ELSE IF arrayMatch # Null
       THEN Unmatched(arrayMatch.dataType, types, providedTypes)
       ELSE IF UnitsNamed(dataType, types) # {}
               \/ ProvidedNamed(dataType, providedTypes) # {}
       THEN {}
       ELSE {dataType}

\* the text resolveIecDataTypeUnit resolves next ({} when it is about to
\* return, or when no unit is being resolved)
NextText(call) ==
    IF call.phase # "resolving" \/ call.stack = <<>> THEN {}
    ELSE LET frame == call.stack[Len(call.stack)]
             texts == TextsOf(call.types[frame.unit])
         IN IF Len(frame.resolved) < Len(texts)
            THEN {texts[Len(frame.resolved) + 1]} ELSE {}

\* C23: when the text to resolve matches no primitive, no STRING/WSTRING or
\* ARRAY syntax, no unit of the text and no provided type, the call ends at
\* once with the error of an unknown data type, which tells the text, the
\* names of all units declared and, when types were provided, their names;
\* the call returns the error only, whatever units it has resolved before.
C23_UnknownDataType ==
    [][\A dataType \in NextText(resolver) :
          \A unknown \in Unmatched(dataType, resolver.types, resolver.providedTypes) :
             /\ resolver'.phase = "done"
             /\ resolver'.stack = <<>>
             /\ resolver'.returned =
                   Throw([error |-> "Unknown data type", dataType |-> unknown,
                          types |-> NamesOf(resolver.types),
                          providedTypes |->
                             IF resolver.providedTypes = Undefined THEN Undefined
                             ELSE Arr([k \in 1..Len(resolver.providedTypes) |->
                                         resolver.providedTypes[k].k])])]_vars

\* C23 (witness): with types provided, a call has resolved a unit and then
\* has ended with the error on the text d, which names the two units of the
\* text and the two provided types
C23_Witness ==
    /\ resolver.phase = "done"
    /\ ~resolver.returned.ok
    /\ resolver.returned.err.error = "Unknown data type"
    /\ resolver.returned.err.dataType = <<100>>
    /\ Len(resolver.returned.err.types) = 2
    /\ resolver.providedTypes # Undefined
    /\ resolver.returned.err.providedTypes = Arr(<<<<99>>, <<85, 73, 78, 84>>>>)
    /\ Resolved(resolver.types) # {}

\* the units the text names: none when the text is the name of a primitive
\* or a string or array syntax
NamesUnit(dataType, types) ==
    IF \/ PrimitivesNamed(dataType) # {}
       \/ stringRegEx(dataType) # Null
       \/ arrayRegEx(dataType, 1) # Null
    THEN {}
    ELSE UnitsNamed(dataType, types)

\* the unit at the end of the chain of aliases that starts at unit j: the
\* first unit on the way that is no alias, or whose text names no unit
RECURSIVE ChainEnd(_, _, _)
ChainEnd(j, types, n) ==
    IF n = 0 \/ types[j].type # "ALIAS" THEN j
    ELSE LET named == NamesUnit(types[j].content.dataType, types)
         IN IF named = {} THEN j ELSE ChainEnd(Least(named), types, n - 1)

\* the aliases on the way from unit j to the end of its chain
RECURSIVE ChainLength(_, _, _)
ChainLength(j, types, n) ==
    IF n = 0 \/ types[j].type # "ALIAS" THEN 0
    ELSE LET named == NamesUnit(types[j].content.dataType, types)
         IN IF named = {} THEN 1 ELSE 1 + ChainLength(Least(named), types, n - 1)

\* C24: an alias has no data type of its own.  The data type stored in a
\* resolved alias is the very object its text resolves to: the object stored
\* in the unit the text names, and so the object stored in the unit at the
\* end of a chain of aliases of any length; the provided object when the
\* text at the end of the chain names a provided type; the primitive when it
\* names a primitive.  The byteLength is the same, and no object is built
\* for an alias.
C24_Alias ==
    resolver.phase # "idle" =>
       /\ BuiltOnce(resolver) \/ ~Acyclic(resolver.types)
       /\ \A j \in Resolved(resolver.types) :
             resolver.types[j].type = "ALIAS" =>
                LET types == resolver.types
                    named == NamesUnit(types[j].content.dataType, types)
                    end == ChainEnd(j, types, Len(types))
                IN /\ named # {} =>
                        /\ Least(named) \in Resolved(types)
                        /\ types[j].resolved = types[Least(named)].resolved
                   /\ types[j].resolved = types[end].resolved
                   /\ types[j].resolved.byteLength = types[end].resolved.byteLength
                   /\ types[end].type = "ALIAS" =>
                        FirstRule(types[end].content.dataType, types[j].resolved,
                                  types, resolver.providedTypes)

\* C24 (witness): a call has returned the data type of an alias of an alias
\* of a provided struct: both aliases hold the provided object
C24_Witness ==
    /\ resolver.phase = "done"
    /\ resolver.returned.ok
    /\ resolver.providedTypes # Undefined
    /\ \E j \in 1..Len(resolver.types) :
          /\ ChainLength(j, resolver.types, Len(resolver.types)) = 2
          /\ resolver.returned.val = resolver.types[j].resolved
          /\ resolver.types[j].resolved = resolver.providedTypes[1].v
          /\ resolver.types[ChainEnd(j, resolver.types, Len(resolver.types))].resolved
                = resolver.providedTypes[1].v

\* C24 (witness of a declared target): a call has returned the data type of
\* an alias of an enum declared after it: the object stored in the enum
C24_WitnessUnit ==
    /\ resolver.phase = "done"
    /\ resolver.returned.ok
    /\ \E j \in 1..Len(resolver.types) :
          LET end == ChainEnd(j, resolver.types, Len(resolver.types))
          IN /\ resolver.types[j].type = "ALIAS"
             /\ j < end
             /\ resolver.types[end].type = "ENUM"
             /\ resolver.returned.val = resolver.types[j].resolved
             /\ resolver.returned.val.object = resolver.types[end].resolved.object

\* the value the member at place k of the enumeration is to get: the value
\* written, else the value of the member before it + 1, else 0
RECURSIVE ValueInOrder(_, _)
ValueInOrder(written, k) ==
    IF written[k].value # Undefined THEN written[k].value.n
    ELSE IF k = 1 THEN 0
    ELSE ValueInOrder(written, k - 1) + 1

\* C25: extractEnum gives every member of the enumeration, in the order of
\* the text, the value written for it, or the value of the member before it
\* + 1 when none is written, or 0 when none is written for the first
\* member; the data type is INT when none is written after the closing
\* bracket.  An enumeration whose written values are all numbers is
\* extracted without an error.
C25_EnumValues ==
    (resolver.phase = "done" /\ \A k \in 1..Len(resolver.written) :
                                   resolver.written[k].value # NaN)
    => /\ resolver.returned.ok
       /\ resolver.returned.val.content
             = [k \in 1..Len(resolver.written) |->
                   Member(resolver.written[k].name,
                          ValueInOrder(resolver.written, k))]
       /\ resolver.returned.val.dataType
             = IF resolver.given \in {Undefined, Str(<<>>)} THEN typeName["INT"]
               ELSE resolver.given.s

\* C25 (witness): the text a, b := 5, c on three lines, with no data type,
\* is extracted as a = 0, b = 5, c = 6 of INT
C25_Witness ==
    /\ resolver.phase = "done"
    /\ resolver.given = Undefined
    /\ resolver.declaration
          = <<97, 44, 10, 32, 32, 98, 32, 58, 61, 32, 53, 44, 10, 32, 32, 99, 10>>
    /\ resolver.returned
          = Ok(ExtractedEnum(<<73, 78, 84>>,
                             <<Member(<<97>>, 0), Member(<<98>>, 5), Member(<<99>>, 6)>>))

\* the text to resolve next names a unit that is being resolved: a unit of
\* the call stack is entered once more
ReEntered(call) ==
    {dataType \in NextText(call) :
        \E k \in 1..Len(call.stack) :
           call.stack[k].unit = UnitOf(dataType, call.types)}

\* C26: resolveIecTypes ends on every text: when a unit refers to itself,
\* directly or through other units, the step that enters a unit that is
\* still being resolved ends the call with a CyclicTypeDeclaration error.
C26_CycleDetected ==
    [][ReEntered(resolver) # {} =>
          /\ resolver'.phase = "done"
          /\ ~resolver'.returned.ok
          /\ resolver'.returned.err.error = "CyclicTypeDeclaration"]_vars

\* the number n modulo 2^(8 * width), low byte first
Wrapped(n, width) == [i \in 1..width |-> (n \div 256 ^ (i - 1)) % 256]

\* the integer types of 8, 16 and 32 bits
IsInteger32(dt) ==
    BaseClass(dt.type) \in {"USINT", "SINT", "UINT", "INT", "DINT", "UDINT"}

\* C27: for an integer type of w = 8, 16 or 32 bits, convertToBuffer of an
\* integer outside the range of the type raises no error and returns the
\* number modulo 2^w, low byte first.
C27_Wraps ==
    (/\ pc = "encoded"
     /\ IsInteger32(schema)
     /\ input.t = "number"
     /\ ~InRange(schema, input))
    => encoded = Ok(Wrapped(input.n, schema.byteLength))

\* the number of characters a STRING or WSTRING is declared with
DeclaredLength(dt) ==
    IF dt.type = "STRING" THEN dt.byteLength - 1 ELSE (dt.byteLength - 2) \div 2

\* C28: for a STRING(L) or WSTRING(L) and any text, the last character of
\* the buffer convertToBuffer returns (its last byte for STRING, its last
\* two bytes for WSTRING) is zero, and convertFromBuffer of that buffer
\* returns no more than L characters.
C28_Terminated ==
    /\ (pc = "encoded" /\ schema.type \in {"STRING", "WSTRING"} /\ input.t = "string") =>
          /\ encoded.ok
          /\ encoded.val[Len(encoded.val)] = 0
          /\ schema.type = "WSTRING" => encoded.val[Len(encoded.val) - 1] = 0
    /\ (pc = "decoded" /\ schema.type \in {"STRING", "WSTRING"} /\ input.t = "string") =>
          /\ decoded.ok
          /\ Len(decoded.val.s) <= DeclaredLength(schema)

\* some unit of the text holds a text that matches no rule
HasUnknown(call) ==
    \E j \in 1..Len(call.types) :
       \E k \in 1..Len(TextsOf(call.types[j])) :
          Unmatched(TextsOf(call.types[j])[k], call.types, call.providedTypes) # {}

\* the order of the phases of resolveIecTypes, seen when the call has ended:
\* the ambiguity error comes before any unit is resolved, and both a
\* returned data type and the not-found error come after every unit of the
\* text is resolved, referred to by the top-level unit or not
PhasesInOrder(call) ==
    /\ (~Truthy(call.given) /\ Len(call.types) > 1) =>
          /\ call.returned = Ambiguous
          /\ Resolved(call.types) = {}
          /\ call.objects = 0
    /\ (\/ call.returned.ok
        \/ call.returned.err.error = "Top-level type was not found") =>
          Resolved(call.types) = 1..Len(call.types)

\* C29: resolveIecTypes works in phases: the ambiguity check is made before
\* any unit is resolved, then every unit of the text is resolved, also the
\* units the top-level unit does not refer to, and only then the top-level
\* name is looked up.  Hence a text that matches no rule, in any unit of the
\* text, ends the call with the error of an unknown data type, and the
\* not-found error is raised only when every unit is resolved.
C29_PhaseOrder ==
    resolver.phase = "done" =>
       /\ PhasesInOrder(resolver)
       /\ (resolver.returned # Ambiguous /\ HasUnknown(resolver)) =>
             /\ ~resolver.returned.ok
             /\ resolver.returned.err.error = "Unknown data type"

\* C30: when no unit is extracted from the text, resolveIecTypes ends with
\* an error of the resolver that tells what is wrong (a declaration that
\* cannot be read, a top-level type that is not found), with and without a
\* top-level name: it returns no data type and does not fail on reading a
\* field of a unit that is not there.
C30_NoUnits ==
    (resolver.phase = "done" /\ Len(resolver.types) = 0) =>
       /\ ~resolver.returned.ok
       /\ resolver.returned.err.error
             \in {"Top-level type was not found", "Malformed declaration"}
====
